---------------------------- MODULE Spec2Model ----------------------------
(***************************************************************************)
(* Model of the operation-polling / caching / asset-retrieval logic of     *)
(* pygento: GeminiVideoGenerator (agento_video.py) and the poll loop of    *)
(* NanaBabanaImageService (agento_image.py).                               *)
(*                                                                         *)
(* Python str and bytes values are sequences of one-character strings.     *)
(* time.time() is an integer clock `now` counted in whole seconds.         *)
(***************************************************************************)
EXTENDS Integers, Sequences, FiniteSets, TLC

(***************************************************************************)
(* Bounds of the model (not program constants).                            *)
(***************************************************************************)
\* largest max_wait_seconds argument tried
MaxWait == 2

\* largest poll_interval_seconds argument tried
MaxInterval == 2

\* longest time, in seconds, that one HTTP request may take
MaxDelay == 1

\* number of API calls (generate / poll) one behaviour of the flow may start
MaxCalls == 3

\* number of poll calls one behaviour of the poll loops may start
MaxLoopCalls == 1

(***************************************************************************)
(* Python string primitives on sequences of characters.                    *)
(***************************************************************************)
\* s.startswith(p)
Min(a, b) == IF a <= b THEN a ELSE b

StartsWith(s, p) == Len(p) <= Len(s) /\ SubSeq(s, 1, Len(p)) = p

\* s.endswith(p)
EndsWith(s, p) == Len(p) <= Len(s) /\ SubSeq(s, Len(s) - Len(p) + 1, Len(s)) = p

\* sub in s
Contains(s, sub) == \E i \in 1..(Len(s) - Len(sub) + 1) : SubSeq(s, i, i + Len(sub) - 1) = sub

\* s.rstrip(chars)
RECURSIVE RStrip(_, _)
RStrip(s, chars) ==
    IF s # <<>> /\ s[Len(s)] \in chars THEN RStrip(SubSeq(s, 1, Len(s) - 1), chars) ELSE s

\* s.lstrip(chars)
RECURSIVE LStrip(_, _)
LStrip(s, chars) ==
    IF s # <<>> /\ s[1] \in chars THEN LStrip(Tail(s), chars) ELSE s

\* the whitespace characters str.strip() removes, as far as the model's alphabet has them
Whitespace == {" "}

\* s.strip()
Strip(s) == LStrip(RStrip(s, Whitespace), Whitespace)

\* s.replace(old, new): leftmost non-overlapping occurrences, old non-empty
RECURSIVE Replace(_, _, _)
Replace(s, old, new) ==
    IF Len(s) < Len(old) THEN s
    ELSE IF SubSeq(s, 1, Len(old)) = old
         THEN new \o Replace(SubSeq(s, Len(old) + 1, Len(s)), old, new)
         ELSE <<s[1]>> \o Replace(Tail(s), old, new)

\* s.split('/')[-1]: the part after the last sep (all of s when there is none)
RECURSIVE LastSegment(_, _)
LastSegment(s, sep) ==
    IF \E i \in 1..Len(s) : s[i] = sep
    THEN LastSegment(Tail(s), sep)
    ELSE s

\* the characters of s joined into one TLA+ string
RECURSIVE Flat(_)
Flat(s) == IF s = <<>> THEN "" ELSE s[1] \o Flat(Tail(s))

(***************************************************************************)
(* hashlib.md5(data).hexdigest().  The digest is one opaque token that     *)
(* names its pre-image, so the model's MD5 has no collisions on the        *)
(* bounded inputs and different pre-images give different digests.         *)
(***************************************************************************)
MD5Hex(data) == << "md5<" \o Flat(data) \o ">" >>

(***************************************************************************)
(* The world around the program: environment variables, the image files   *)
(* on disk and the values the callers pass.                                *)
(***************************************************************************)
\* os.environ as _get_base_url reads it; <<>> is an unset (or empty) variable
NoEnv == [MAGENTO_BASE_URL |-> <<>>, BASE_URL |-> <<>>, HTTP_HOST |-> <<>>,
          SERVER_NAME |-> <<>>, HTTPS |-> <<>>]

Environs ==
    { NoEnv,
      [NoEnv EXCEPT !.MAGENTO_BASE_URL = <<"h", "t", "t", "p", ":", "/", "/", "s", ".", "t", "/", "d", "e", "f", "a", "u", "l", "t", "/", "x", "/">>],
      [NoEnv EXCEPT !.BASE_URL = <<"/">>],
      [NoEnv EXCEPT !.HTTP_HOST = <<"s", ".", "t">>, !.HTTPS = <<"o", "n">>],
      [NoEnv EXCEPT !.SERVER_NAME = <<"s", ".", "t">>] }

\* base_url constructor arguments; <<>> is None
BaseUrlArgs == { <<>>, <<"h", "t", "t", "p", ":", "/", "/", "u", ".", "t", "/">> }

\* api_key constructor arguments; <<>> is the empty key
TestApiKey == <<"K">>
ApiKeys == { <<>>, TestApiKey }

\* base_path constructor argument
BasePath == <<"/", "m">>

\* file contents
BytesX == <<"x">>
BytesY == <<"y">>

\* the image files that exist, by absolute path, with their content
imageFiles ==
    ( <<"/", "m", "/", "p", "u", "b", "/", "m", "e", "d", "i", "a", "/", "a", ".", "j", "p", "g">> :> BytesX ) @@
    ( <<"/", "b", ".", "j", "p", "g">> :> BytesX ) @@
    ( <<"/", "c", ".", "j", "p", "g">> :> BytesY )

\* image_path arguments: relative, absolute with the same bytes, other bytes, missing
ImagePaths == { <<"a", ".", "j", "p", "g">>, <<"/", "b", ".", "j", "p", "g">>, <<"/", "c", ".", "j", "p", "g">>, <<"n", ".", "j", "p", "g">> }
Prompts == { <<"a">>, <<"a", " ">> }

\* the prompt the flow submits
FlowPrompts == { <<"a", " ">> }
AspectRatios == { <<"1", "6", ":", "9">>, <<"9">> }

\* operation names the API hands out
OperationNames == { <<"o", "p", "e", "r", "a", "t", "i", "o", "n", "s", "/", "1">> }

\* URIs a completed operation may carry
VideoUris == { <<"h", "t", "t", "p", "s", ":", "/", "/", "g", "e", "n", "e", "r", "a", "t", "i", "v", "e", "l", "a", "n", "g", "u", "a", "g", "e", ".", "g", "o", "o", "g", "l", "e", "a", "p", "i", "s", ".", "c", "o", "m", "/", "f">>, <<"h", "t", "t", "p", ":", "/", "/", "e", ".", "x", "/", "v", "?", "a">> }

\* bodies a download may deliver; <<>> is an empty body
VideoBytes == { <<"v">>, <<"w">> }

(***************************************************************************)
(* GeminiVideoGenerator: construction and pure helpers.                    *)
(***************************************************************************)
\* a or b, for str values
Or(a, b) == IF a # <<>> THEN a ELSE b

DefaultBaseUrl == <<"h", "t", "t", "p", "s", ":", "/", "/", "a", "p", "p", ".", "l", "c", ".", "t", "e", "s", "t">>

_get_base_url(env) ==
    LET base_url == Or(env.MAGENTO_BASE_URL, env.BASE_URL)
        host == Or(env.HTTP_HOST, env.SERVER_NAME)
    IN  IF base_url # <<>>
        THEN LET b1 == RStrip(base_url, {"/"})
                 b2 == IF Contains(b1, <<"/", "d", "e", "f", "a", "u", "l", "t", "/">>)
                       THEN Replace(b1, <<"/", "d", "e", "f", "a", "u", "l", "t", "/">>, <<"/">>)
                       ELSE b1
             IN  RStrip(b2, {"/"})
        ELSE IF host # <<>>
        THEN (IF env.HTTPS = <<"o", "n">> THEN <<"h", "t", "t", "p", "s">> ELSE <<"h", "t", "t", "p">>)
             \o <<":", "/", "/">> \o host
        ELSE DefaultBaseUrl

\* self.base_url as __init__ sets it
InitBaseUrl(base_url_arg, env) == Or(base_url_arg, _get_base_url(env))

\* pathlib: str(a / b)
PathJoin(a, b) == a \o <<"/">> \o b

\* self.video_dir
video_dir == PathJoin(PathJoin(PathJoin(BasePath, <<"p", "u", "b">>), <<"m", "e", "d", "i", "a">>), <<"v", "i", "d", "e", "o">>)

\* Path(p).exists() for image files
ImageExists(p) == p \in DOMAIN imageFiles

\* an availability check that always passes
is_available_always(key) == TRUE

is_available(key) == key # <<>>

\* a resolution that keeps the 'pub/media/' prefix
resolve_image_path_keep_prefix(image_path) ==
    IF StartsWith(image_path, <<"/">>)
    THEN image_path
    ELSE PathJoin(PathJoin(PathJoin(BasePath, <<"p", "u", "b">>), <<"m", "e", "d", "i", "a">>),
                  LStrip(image_path, {"/"}))

resolve_image_path(image_path) ==
    IF StartsWith(image_path, <<"/">>)
    THEN image_path
    ELSE LET rel == IF StartsWith(image_path, <<"p", "u", "b", "/", "m", "e", "d", "i", "a", "/">>)
                    THEN SubSeq(image_path, 11, Len(image_path))
                    ELSE image_path
         IN  PathJoin(PathJoin(PathJoin(BasePath, <<"p", "u", "b">>), <<"m", "e", "d", "i", "a">>),
                      LStrip(rel, {"/"}))

\* a key string that leaves the prompt out
CacheDataNoPrompt(image_hash, prompt, aspect_ratio) ==
    image_hash \o <<":">> \o aspect_ratio

\* the string generate_cache_key hashes
CacheData(image_hash, prompt, aspect_ratio) ==
    image_hash \o <<":">> \o prompt \o <<":">> \o aspect_ratio

\* a key over the path of the image instead of its bytes
generate_cache_key_of_path(image_path, prompt, aspect_ratio) ==
    MD5Hex(CacheData(MD5Hex(image_path), prompt, aspect_ratio))

\* generate_cache_key for an image file that exists
generate_cache_key(image_path, prompt, aspect_ratio) ==
    MD5Hex(CacheData(MD5Hex(imageFiles[image_path]), prompt, aspect_ratio))

\* f'veo_{cache_key}.mp4'
VideoFilename(cache_key) == <<"v", "e", "o", "_">> \o cache_key \o <<".", "m", "p", "4">>

\* f"{base_url_clean}/{relative_path}" with relative_path = f"media/video/{filename}"
VideoUrl(baseUrl, filename) ==
    RStrip(baseUrl, {"/"}) \o <<"/">> \o <<"m", "e", "d", "i", "a", "/", "v", "i", "d", "e", "o", "/">> \o filename

\* final_prompt of generate_video_from_image
FinalPrompt(prompt, silent_video) ==
    IF silent_video THEN Strip(prompt) \o <<" ", "s", "i", "l", "e", "n", "t", " ", "v", "i", "d", "e", "o">> ELSE prompt

\* the URI download_video_with_redirects requests
\* a download URI that always takes '?' as the separator
DownloadUriQuery(uri, key) ==
    IF Contains(uri, <<"g", "e", "n", "e", "r", "a", "t", "i", "v", "e", "l", "a", "n", "g", "u", "a", "g", "e", ".", "g", "o", "o", "g", "l", "e", "a", "p", "i", "s", ".", "c", "o", "m">>) /\ ~Contains(uri, <<"k", "e", "y", "=">>)
    THEN uri \o <<"?">> \o <<"k", "e", "y", "=">> \o key
    ELSE uri

DownloadUri(uri, key) ==
    IF Contains(uri, <<"g", "e", "n", "e", "r", "a", "t", "i", "v", "e", "l", "a", "n", "g", "u", "a", "g", "e", ".", "g", "o", "o", "g", "l", "e", "a", "p", "i", "s", ".", "c", "o", "m">>) /\ ~Contains(uri, <<"k", "e", "y", "=">>)
    THEN uri \o (IF Contains(uri, <<"?">>) THEN <<"&">> ELSE <<"?">>) \o <<"k", "e", "y", "=">> \o key
    ELSE uri

(***************************************************************************)
(* State.                                                                  *)
(***************************************************************************)
VARIABLES
    api_key,        \* GeminiVideoGenerator.api_key
    base_url,       \* GeminiVideoGenerator.base_url
    ctor,           \* the base_url argument and the environment of the construction
    videoDir,       \* the files in video_dir: file name -> content
    now,            \* time.time()
    calls,          \* number of API calls started so far
    lastCall,       \* the call started last: "none", "generate", "poll", "poll_operation", ...
    lastGen,        \* arguments, submit response, POST count and outcome of generate_video_from_image
    completed,      \* generate inputs whose operation was polled to completion with its cacheKey
    pollPc,         \* position of poll_video_operation: "idle", "check", "request", "download", "sleep"
    pollArgs,       \* its arguments
    pollFor,        \* the generate inputs whose operationName and cacheKey it was called with, if any
    start_time,     \* its local start_time
    video_uri,      \* its local video_uri
    polls,          \* poll (GET) requests it has issued
    responses,      \* the done field of every poll response it has received, in order
    lastData,       \* the poll response it received last
    downloads,      \* download requests it has issued, in order
    pollResult,     \* what it returned or raised
    imgPc,          \* position of NanaBabanaImageService.poll_operation: "idle", "check", "request", "sleep"
    imgArgs,        \* its arguments
    imgStart,       \* its local start
    imgPolls,       \* GET requests it has issued
    imgResponses,   \* the poll responses it has received, in order
    imgResult,      \* what it returned or raised
    keyCalls,       \* the last two direct calls of generate_cache_key: arguments and outcome
    svc,            \* NanaBabanaImageService: its api_key, and whether the Gen AI SDK was imported
    outputDir,      \* the files in the service's output_dir (base_path/genai): file name -> content
    uploadDir,      \* the files in the server's UPLOAD_FOLDER (base_path/pub/media/lookbook)
    imgGen,         \* arguments, image loads, SDK calls and outcome of the last generate_image
    asset,          \* arguments, download requests with the answer, and outcome of the last
                    \* save_asset_from_operation
    lastRequest,    \* the last request the image server handled, and its response
    generated,      \* file name and saved content of every POST /generate answered with success
    dlCall,         \* the last direct call of download_video_with_redirects: request and outcome
    resolveCalls,   \* the last two direct calls of resolve_image_path: argument and result
    nameCalls,      \* the last two direct calls of generate_descriptive_filename: arguments and result
    mock,           \* the mock Veo server: its stored operations, the poll it answered last and
                    \* the operations a poll has reported done
    cli             \* the run of the video CLI (main): its arguments, position, results, errors,
                    \* requests made, printed object and exit status

genVars == <<api_key, base_url, ctor>>
pollVars == <<pollPc, pollArgs, pollFor, start_time, video_uri, polls, responses, lastData, downloads, pollResult>>
imgVars == <<imgPc, imgArgs, imgStart, imgPolls, imgResponses, imgResult>>
extVars == <<nameCalls, mock, cli>>
svcVars == <<svc, outputDir, uploadDir, imgGen, asset, lastRequest, generated, dlCall, resolveCalls>>
videoVars == <<api_key, base_url, ctor, videoDir, calls, lastCall, lastGen, completed,
               pollVars, imgVars, keyCalls>>
vars == <<api_key, base_url, ctor, videoDir, now, calls, lastCall, lastGen, completed,
          pollPc, pollArgs, pollFor, start_time, video_uri, polls, responses, lastData, downloads,
          pollResult, imgPc, imgArgs, imgStart, imgPolls, imgResponses, imgResult,
          keyCalls, svc, outputDir, uploadDir, imgGen, asset, lastRequest, generated, dlCall,
          resolveCalls, nameCalls, mock, cli>>

(***************************************************************************)
(* Values returned and raised.  A dict is a record; a key that the dict    *)
(* does not have holds <<>> (or FALSE) and `kind` tells which keys exist.  *)
(***************************************************************************)
NoGenResult ==
    [kind |-> "none", fromCache |-> FALSE, videoUrl |-> <<>>, videoPath |-> <<>>,
     status |-> "", operationName |-> <<>>, cacheKey |-> <<>>, done |-> FALSE,
     exc |-> "", message |-> <<>>]

GenCached(url, path) ==
    [NoGenResult EXCEPT !.kind = "cached", !.fromCache = TRUE, !.videoUrl = url,
                        !.videoPath = path, !.status = "completed"]

GenOperation(name, key, isDone) ==
    [NoGenResult EXCEPT !.kind = "operation", !.operationName = name, !.cacheKey = key,
                        !.done = isDone,
                        !.status = IF isDone THEN "completed" ELSE "running"]

GenError(exc, message) ==
    [NoGenResult EXCEPT !.kind = "error", !.exc = exc, !.message = message]

NoPollResult ==
    [kind |-> "none", videoUrl |-> <<>>, videoPath |-> <<>>, embedUrl |-> <<>>,
     status |-> "", exc |-> "", message |-> <<>>]

PollVideo(url, path, embed) ==
    [NoPollResult EXCEPT !.kind = "video", !.videoUrl = url, !.videoPath = path,
                         !.embedUrl = embed, !.status = "completed"]

PollError(exc, message) ==
    [NoPollResult EXCEPT !.kind = "error", !.exc = exc, !.message = message]

(***************************************************************************)
(* HTTP responses of the API.                                              *)
(***************************************************************************)
\* response to the submit POST: http is "ok" or "error"; name <<>> is a body without 'name'
PostResponses ==
    { [http |-> "error", name |-> <<>>, done |-> "absent"],
      [http |-> "ok", name |-> <<>>, done |-> "absent"] }
    \cup { [http |-> "ok", name |-> n, done |-> d] :
             n \in OperationNames, d \in {"absent", "false", "true"} }

\* a done flag that defaults to true when the field is absent
GetDoneByDefault(data) == data.done # "false"

\* data.get('done', False)
GetDone(data) == data.done = "true"

NoPollData ==
    [http |-> "none", done |-> "absent", response |-> FALSE, generateVideoResponse |-> FALSE,
     rai |-> FALSE, reasons |-> <<>>, samples |-> "absent", uri |-> <<>>]

\* a failed request: HTTP error status, or a transport error
PollFailures == { [NoPollData EXCEPT !.http = h] : h \in {"http_error", "transport_error"} }

PollOk == [NoPollData EXCEPT !.http = "ok"]

\* bodies that do not report done
PollNotDone == { [PollOk EXCEPT !.done = d] : d \in {"absent", "false"} }

PollDone == [PollOk EXCEPT !.done = "true", !.response = TRUE, !.generateVideoResponse = TRUE]

FilterReasons == <<"SAFETY", "COPYRIGHT">>

\* bodies that report done: without 'response', without 'generateVideoResponse',
\* filtered, filtered with a sample, with no / empty / URI-less samples, with a URI
PollDoneBodies ==
    { [PollOk EXCEPT !.done = "true"],
      [PollOk EXCEPT !.done = "true", !.response = TRUE],
      [PollDone EXCEPT !.rai = TRUE, !.reasons = FilterReasons],
      [PollDone EXCEPT !.samples = "empty"],
      [PollDone EXCEPT !.samples = "no_uri"] }
    \cup { [PollDone EXCEPT !.rai = TRUE, !.reasons = FilterReasons,
                            !.samples = "uri", !.uri = u] : u \in VideoUris }
    \cup { [PollDone EXCEPT !.samples = "uri", !.uri = u] : u \in VideoUris }

PollResponses == PollFailures \cup PollNotDone \cup PollDoneBodies

\* outcome of the download GET: a failure, or a body (<<>> is an empty body)
DownloadOutcomes ==
    { [http |-> h, content |-> <<>>] : h \in {"http_error", "transport_error"} }
    \cup { [http |-> "ok", content |-> c] : c \in VideoBytes \cup {<<>>} }

\* responses to the GET of poll_operation: done is the body's 'done' value
ImgResponses ==
    { [http |-> h, done |-> "absent", body |-> ""] : h \in {"http_error", "transport_error"} }
    \cup { [http |-> "ok", done |-> d, body |-> ""] : d \in {"absent", "false"} }
    \cup { [http |-> "ok", done |-> "true", body |-> b] : b \in {"r1", "r2"} }

NoImgResult == [kind |-> "none", data |-> [http |-> "none", done |-> "absent", body |-> ""],
                exc |-> "", message |-> <<>>]


(***************************************************************************)
(* Values of the image service and the image server.                       *)
(***************************************************************************)
\* the service the old specifications construct and never call
DefaultService == [api_key |-> TestApiKey, sdk |-> TRUE]

\* what save_asset_from_operation returned or raised
NoAssetResult == [kind |-> "none", path |-> <<>>, exc |-> "", message |-> <<>>]

AssetPath(path) == [NoAssetResult EXCEPT !.kind = "path", !.path = path]

AssetError(exc, message) == [NoAssetResult EXCEPT !.kind = "error", !.exc = exc, !.message = message]

\* a generated sample: sample['image']['data'], sample['video']['uri'], sample['image']['uri']
NoSample == [data |-> <<>>, video_uri |-> <<>>, image_uri |-> <<>>]

\* resp['generateVideoResponse'] or resp['generateImageResponse'] when the key is missing
NoPart == [present |-> FALSE, generatedSamples |-> <<>>]

\* operation_data without a 'response'
NoOperationData == [video |-> NoPart, image |-> NoPart]

NoAsset == [operation_data |-> NoOperationData, cache_key |-> <<>>, requests |-> <<>>,
            status |-> "none", content |-> <<>>, result |-> NoAssetResult]

\* what generate_image returned or raised
NoImgGenResult == [kind |-> "none", op |-> NoOperationData, done |-> FALSE, exc |-> "",
                   message |-> <<>>]

NoImgGen == [model_image |-> <<>>, look_image |-> <<>>, prompt |-> <<>>, loads |-> <<>>,
             sdk_calls |-> 0, result |-> NoImgGenResult]

\* no request handled yet; a response has its status, the keys of its JSON body with the
\* values of 'success', 'error' and 'filename', or the bytes of the file it sends
NoHttp == [method |-> "", path |-> <<>>, payload |-> <<>>, status |-> 0, keys |-> {},
           success |-> FALSE, error |-> <<>>, filename |-> <<>>, body |-> <<>>,
           generations |-> 0]

NoDownload == [uri |-> <<>>, url |-> <<>>, x_goog_api_key |-> <<>>, allow_redirects |-> FALSE,
               result |-> "none", content |-> <<>>]

\* the mock server's answer to a request: the HTTP status and, for a stored operation,
\* its name, the done field and which response the body carries
NoMockResponse ==
    [method |-> "", status |-> 0, name |-> <<>>, done |-> FALSE, body |-> "none", at |-> 0]

\* MockVeoAPIHandler.operations is empty, and no request has been answered
NoMock == [operations |-> <<>>, last |-> NoMockResponse, reported |-> {}]


\* main has not run
NoCliArgs == [image_path |-> <<>>, prompt |-> <<>>, aspect_ratio |-> <<>>, silent_video |-> FALSE,
              poll |-> FALSE, api_key |-> <<>>]

NoCli == [pc |-> "none", args |-> NoCliArgs, env_key |-> <<>>, raised |-> "", results |-> <<>>,
          errors |-> <<>>, log |-> <<>>, printed |-> [success |-> FALSE, error |-> <<>>],
          exit |-> -1]
(***************************************************************************)
(* Initial states: a generator has been constructed, no call was made.     *)
(***************************************************************************)
EmptyDir == [f \in {} |-> <<>>]

\* the file test_generate_video_from_image_cached puts into video_dir before the call
CachedDir ==
    VideoFilename(generate_cache_key(<<"/", "b", ".", "j", "p", "g">>, <<"a", " ", "s", "i", "l", "e", "n", "t", " ", "v", "i", "d", "e", "o">>, <<"1", "6", ":", "9">>)) :> <<"c">>

NoGen ==
    [args |-> [image_path |-> <<>>, prompt |-> <<>>, aspect_ratio |-> <<>>, silent_video |-> FALSE],
     response |-> [http |-> "none", name |-> <<>>, done |-> "absent"],
     posts |-> 0,
     result |-> NoGenResult]

NoPollArgs == [operation_name |-> <<>>, max_wait_seconds |-> 0, poll_interval_seconds |-> 0,
               cache_key |-> <<>>]

NoImgArgs == [max_wait_seconds |-> 0, poll_interval_seconds |-> 0]

InitVideoWith(keys, baseUrlArgs, environs, dirs) ==
    /\ api_key \in keys
    /\ ctor \in [base_url_arg : baseUrlArgs, environ : environs]
    /\ base_url = InitBaseUrl(ctor.base_url_arg, ctor.environ)
    /\ videoDir \in dirs
    /\ now = 0
    /\ calls = 0
    /\ lastCall = "none"
    /\ lastGen = NoGen
    /\ completed = {}
    /\ pollPc = "idle"
    /\ pollArgs = NoPollArgs
    /\ pollFor = {}
    /\ start_time = 0
    /\ video_uri = <<>>
    /\ polls = 0
    /\ responses = <<>>
    /\ lastData = NoPollData
    /\ downloads = <<>>
    /\ pollResult = NoPollResult
    /\ imgPc = "idle"
    /\ imgArgs = NoImgArgs
    /\ imgStart = 0
    /\ imgPolls = 0
    /\ imgResponses = <<>>
    /\ imgResult = NoImgResult
    /\ keyCalls = <<>>

\* nothing has been called yet, the mock server stores nothing and the CLI has not run
InitExt ==
    /\ nameCalls = <<>>
    /\ mock = NoMock
    /\ cli = NoCli

\* the image service and the image server before any call
InitServiceWith(services, uploads) ==
    /\ InitExt
    /\ svc \in services
    /\ outputDir = EmptyDir
    /\ uploadDir \in uploads
    /\ imgGen = NoImgGen
    /\ asset = NoAsset
    /\ lastRequest = NoHttp
    /\ generated = {}
    /\ dlCall = NoDownload
    /\ resolveCalls = <<>>

InitWith(keys, baseUrlArgs, environs, dirs) ==
    /\ InitVideoWith(keys, baseUrlArgs, environs, dirs)
    /\ InitServiceWith({DefaultService}, {EmptyDir})

(***************************************************************************)
(* GeminiVideoGenerator.get_cached_video and generate_video_from_image.    *)
(***************************************************************************)
\* a lookup that never finds the file
get_cached_video_miss(cache_key) == NoGenResult

get_cached_video(cache_key) ==
    LET filename == VideoFilename(cache_key)
    IN  IF filename \in DOMAIN videoDir
        THEN GenCached(VideoUrl(base_url, filename), PathJoin(video_dir, filename))
        ELSE NoGenResult

\* the value returned or raised, and the number of POST requests sent
generate_video_from_image(image_path, prompt, aspect_ratio, silent_video, post) ==
    IF ~is_available(api_key)
    THEN [posts |-> 0,
          result |-> GenError("RuntimeError",
                     <<"Gemini video service is not available. Please configure the Gemini API key.">>)]
    ELSE
    LET source_path == resolve_image_path(image_path)
    IN  IF ~ImageExists(source_path)
        THEN [posts |-> 0,
              result |-> GenError("FileNotFoundError", <<"Source image not found: ">> \o source_path)]
        ELSE
        LET final_prompt == FinalPrompt(prompt, silent_video)
            cache_key == generate_cache_key(source_path, final_prompt, aspect_ratio)
            cached_video == get_cached_video(cache_key)
        IN  IF cached_video.kind # "none"
            THEN [posts |-> 0, result |-> cached_video]
            ELSE IF post.http # "ok"
            THEN [posts |-> 1,
                  result |-> GenError("RuntimeError", <<"Gemini API request failed: ", post.http>>)]
            ELSE IF post.name = <<>>
            THEN [posts |-> 1,
                  result |-> GenError("RuntimeError",
                             <<"Video generation failed: ",
                               "Invalid API response: operation name not found">>)]
            ELSE [posts |-> 1,
                  result |-> GenOperation(post.name, cache_key, GetDone(post))]

Idle == pollPc = "idle" /\ imgPc = "idle"

\* a new call starts: what was observed of the previous generate_video_from_image is dropped
ForgetGenerate == lastGen' = NoGen

\* a new call starts: what was observed of the previous poll_video_operation is dropped
ForgetPoll ==
    /\ pollPc' = "idle"
    /\ pollArgs' = NoPollArgs
    /\ pollFor' = {}
    /\ start_time' = 0
    /\ video_uri' = <<>>
    /\ polls' = 0
    /\ responses' = <<>>
    /\ lastData' = NoPollData
    /\ downloads' = <<>>
    /\ pollResult' = NoPollResult

\* a new call starts: what was observed of the previous poll_operation is dropped
ForgetImgPoll ==
    /\ imgPc' = "idle"
    /\ imgArgs' = NoImgArgs
    /\ imgStart' = 0
    /\ imgPolls' = 0
    /\ imgResponses' = <<>>
    /\ imgResult' = NoImgResult

\* the records of the image service's last calls are dropped when another call starts
ForgetService ==
    /\ imgGen' = NoImgGen
    /\ asset' = NoAsset

Generate(image_path, prompt, aspect_ratio, silent_video, post) ==
    /\ Idle
    /\ calls' = calls + 1
    /\ lastCall' = "generate"
    /\ LET out == generate_video_from_image(image_path, prompt, aspect_ratio, silent_video, post)
       IN  lastGen' = [args |-> [image_path |-> image_path, prompt |-> prompt,
                                 aspect_ratio |-> aspect_ratio, silent_video |-> silent_video],
                       response |-> IF out.posts = 0 THEN NoGen.response ELSE post,
                       posts |-> out.posts,
                       result |-> out.result]
    /\ ForgetPoll
    /\ ForgetImgPoll
    /\ ForgetService
    /\ UNCHANGED <<genVars, extVars, keyCalls, videoDir, now, completed, svc, outputDir, uploadDir,
                   lastRequest, generated, dlCall, resolveCalls>>

(***************************************************************************)
(* GeminiVideoGenerator.poll_video_operation, one action per step of the   *)
(* loop, with download_video_with_redirects and save_video.                *)
(***************************************************************************)
\* the inputs of the last generate_video_from_image, when the poll is called with the
\* operationName and cacheKey that call returned
PolledInputs(operation_name, cache_key) ==
    IF /\ lastGen.result.kind = "operation"
       /\ operation_name = lastGen.result.operationName
       /\ cache_key = lastGen.result.cacheKey
    THEN { [image |-> imageFiles[resolve_image_path(lastGen.args.image_path)],
            prompt |-> lastGen.args.prompt,
            aspect_ratio |-> lastGen.args.aspect_ratio,
            silent_video |-> lastGen.args.silent_video] }
    ELSE {}

PollStart(operation_name, max_wait_seconds, poll_interval_seconds, cache_key) ==
    /\ Idle
    /\ calls' = calls + 1
    /\ lastCall' = "poll"
    /\ pollArgs' = [operation_name |-> operation_name, max_wait_seconds |-> max_wait_seconds,
                    poll_interval_seconds |-> poll_interval_seconds, cache_key |-> cache_key]
    /\ pollFor' = PolledInputs(operation_name, cache_key)
    /\ polls' = 0
    /\ responses' = <<>>
    /\ lastData' = NoPollData
    /\ downloads' = <<>>
    /\ video_uri' = <<>>
    /\ IF ~is_available(api_key)
       THEN /\ pollPc' = "idle"
            /\ pollResult' = PollError("RuntimeError", <<"Gemini video service is not available.">>)
            /\ start_time' = 0
       ELSE /\ pollPc' = "check"
            /\ pollResult' = NoPollResult
            /\ start_time' = now
    /\ ForgetGenerate
    /\ ForgetImgPoll
    /\ UNCHANGED <<genVars, extVars, svcVars, keyCalls, videoDir, now, completed>>

\* a timeout comparison that lets one more second pass
TimedOutLate(elapsed, max_wait_seconds) == elapsed > max_wait_seconds + 1

\* a timeout comparison that gives up one second early
TimedOutAtLimit(elapsed, max_wait_seconds) == elapsed >= max_wait_seconds

\* if elapsed > max_wait_seconds
TimedOut(elapsed, max_wait_seconds) == elapsed > max_wait_seconds

\* the timeout check at the top of the loop
PollCheck ==
    /\ pollPc = "check"
    /\ LET elapsed == now - start_time
       IN  IF TimedOut(elapsed, pollArgs.max_wait_seconds)
           THEN /\ pollPc' = "idle"
                /\ pollResult' = PollError("RuntimeError",
                                   <<"Video generation ", "timeout", " after ",
                                     ToString(pollArgs.max_wait_seconds), " seconds">>)
           ELSE /\ pollPc' = "request"
                /\ UNCHANGED pollResult
    /\ UNCHANGED <<genVars, extVars, svcVars, keyCalls, videoDir, now, calls, lastCall, lastGen, completed, pollArgs, pollFor,
                   start_time, video_uri, polls, responses, lastData, downloads, imgVars>>

\* ", ".join(reasons)
RECURSIVE JoinReasons(_)
JoinReasons(reasons) ==
    IF Len(reasons) <= 1 THEN reasons
    ELSE <<reasons[1], ", ">> \o JoinReasons(Tail(reasons))

\* the video URI the loop extracts from a done response; <<>> is None
ExtractVideoUri(data) ==
    IF data.response /\ data.generateVideoResponse /\ data.samples = "uri"
    THEN data.uri
    ELSE <<>>

\* a filter check that gives way to a generated sample
IsFilteredUnlessSample(data) ==
    data.response /\ data.generateVideoResponse /\ data.rai /\ data.samples # "uri"

\* the loop raises the safety-filter error for this done response
IsFiltered(data) == data.response /\ data.generateVideoResponse /\ data.rai

\* what `responses` records of a poll response
ResponseTag(data) ==
    IF data.http # "ok" THEN data.http ELSE IF GetDone(data) THEN "done" ELSE "not_done"

\* the branch of the loop body a poll response takes
PollBranch(data) ==
    IF data.http # "ok" THEN "failed"
    ELSE IF ~GetDone(data) THEN "sleep"
    ELSE IF IsFiltered(data) THEN "filtered"
    ELSE IF ExtractVideoUri(data) = <<>> THEN "no_uri"
    ELSE "save"

\* requests.get(poll_url) taking d seconds and answering data, and the handling of the answer
PollRequest(d, data) ==
    /\ pollPc = "request"
    /\ pollArgs.poll_interval_seconds + d >= 1
    /\ polls' = polls + 1
    /\ now' = now + d
    /\ responses' = Append(responses, ResponseTag(data))
    /\ lastData' = data
    /\ LET branch == PollBranch(data)
       IN  /\ pollPc' = CASE branch = "sleep" -> "sleep"
                          [] branch = "save" -> "download"
                          [] OTHER -> "idle"
           /\ video_uri' = IF branch = "save" THEN ExtractVideoUri(data) ELSE video_uri
           /\ pollResult' =
                 CASE branch = "failed" ->
                        PollError("RuntimeError", <<"Video operation polling failed: ", data.http>>)
                   [] branch = "filtered" ->
                        PollError("RuntimeError",
                                  <<"Video generation was blocked by safety filters. ",
                                    "Reason(s): ">> \o JoinReasons(data.reasons))
                   [] branch = "no_uri" ->
                        PollError("RuntimeError",
                                  <<"No video URI found in completed operation response">>)
                   [] OTHER -> pollResult
    /\ UNCHANGED <<genVars, extVars, svcVars, keyCalls, videoDir, calls, lastCall, lastGen, completed, pollArgs, pollFor,
                   start_time, downloads, imgVars>>

\* a file name taken from the operation name whatever cache_key was given
SaveKeyOperation(args) == LastSegment(args.operation_name, "/")

\* the name save_video is given: cache_key, or the last part of the operation name
SaveKey(args) ==
    IF args.cache_key # <<>> THEN args.cache_key ELSE LastSegment(args.operation_name, "/")

\* a save_video that opens the file before it looks at what the download delivered
PollSaveVideoEarly(d, outcome) ==
    /\ pollPc = "download"
    /\ pollPc' = "idle"
    /\ now' = now + d
    /\ downloads' = Append(downloads, [uri |-> DownloadUri(video_uri, api_key),
                                       x_goog_api_key |-> api_key,
                                       allow_redirects |-> TRUE,
                                       status |-> outcome.http,
                                       content |-> outcome.content])
    /\ LET filename == VideoFilename(SaveKey(pollArgs))
           video_path == PathJoin(video_dir, filename)
           video_url == VideoUrl(base_url, filename)
           embed_url == <<"<video controls width=\"100%\" height=\"auto\"><source src=\"">>
                        \o video_url
                        \o <<"\" type=\"video/mp4\">Your browser does not support the video tag.</video>">>
       IN  IF outcome.http # "ok"
           THEN /\ pollResult' = PollError("RuntimeError",
                                   <<"Video operation polling failed: ", outcome.http>>)
                /\ UNCHANGED <<videoDir, completed>>
           ELSE IF outcome.content = <<>>
           THEN /\ pollResult' = PollError("RuntimeError",
                                   <<"Video download returned empty content">>)
                /\ videoDir' = [f \in DOMAIN videoDir \cup {filename} |->
                                  IF f = filename THEN <<>> ELSE videoDir[f]]
                /\ UNCHANGED completed
           ELSE /\ videoDir' = [f \in DOMAIN videoDir \cup {filename} |->
                                  IF f = filename THEN outcome.content ELSE videoDir[f]]
                /\ pollResult' = PollVideo(video_url, video_path, embed_url)
                /\ completed' = completed \cup { [inputs |-> i, videoPath |-> video_path] : i \in pollFor }
    /\ UNCHANGED <<genVars, extVars, svcVars, keyCalls, calls, lastCall, lastGen, pollArgs, pollFor, start_time, video_uri,
                   polls, responses, lastData, imgVars>>

\* save_video: download_video_with_redirects taking d seconds, then the write and the return
PollSaveVideo(d, outcome) ==
    /\ pollPc = "download"
    /\ pollPc' = "idle"
    /\ now' = now + d
    /\ downloads' = Append(downloads, [uri |-> DownloadUri(video_uri, api_key),
                                       x_goog_api_key |-> api_key,
                                       allow_redirects |-> TRUE,
                                       status |-> outcome.http,
                                       content |-> outcome.content])
    /\ LET filename == VideoFilename(SaveKey(pollArgs))
           video_path == PathJoin(video_dir, filename)
           video_url == VideoUrl(base_url, filename)
           embed_url == <<"<video controls width=\"100%\" height=\"auto\"><source src=\"">>
                        \o video_url
                        \o <<"\" type=\"video/mp4\">Your browser does not support the video tag.</video>">>
       IN  IF outcome.http # "ok"
           THEN /\ pollResult' = PollError("RuntimeError",
                                   <<"Video operation polling failed: ", outcome.http>>)
                /\ UNCHANGED <<videoDir, completed>>
           ELSE IF outcome.content = <<>>
           THEN /\ pollResult' = PollError("RuntimeError",
                                   <<"Video download returned empty content">>)
                /\ UNCHANGED <<videoDir, completed>>
           ELSE /\ videoDir' = [f \in DOMAIN videoDir \cup {filename} |->
                                  IF f = filename THEN outcome.content ELSE videoDir[f]]
                /\ pollResult' = PollVideo(video_url, video_path, embed_url)
                /\ completed' = completed \cup { [inputs |-> i, videoPath |-> video_path] : i \in pollFor }
    /\ UNCHANGED <<genVars, extVars, svcVars, keyCalls, calls, lastCall, lastGen, pollArgs, pollFor, start_time, video_uri,
                   polls, responses, lastData, imgVars>>

\* a sleep that returns at once
PollSleepNoWait ==
    /\ pollPc = "sleep"
    /\ pollPc' = "check"
    /\ now' = now
    /\ UNCHANGED <<genVars, extVars, svcVars, keyCalls, videoDir, calls, lastCall, lastGen, completed, pollArgs, pollFor,
                   start_time, video_uri, polls, responses, lastData, downloads, pollResult,
                   imgVars>>

\* time.sleep(poll_interval_seconds)
PollSleep ==
    /\ pollPc = "sleep"
    /\ pollPc' = "check"
    /\ now' = now + pollArgs.poll_interval_seconds
    /\ UNCHANGED <<genVars, extVars, svcVars, keyCalls, videoDir, calls, lastCall, lastGen, completed, pollArgs, pollFor,
                   start_time, video_uri, polls, responses, lastData, downloads, pollResult,
                   imgVars>>

(***************************************************************************)
(* NanaBabanaImageService.poll_operation, one action per step of the loop. *)
(***************************************************************************)
ImgPollStart(max_wait_seconds, poll_interval_seconds) ==
    /\ Idle
    /\ calls' = calls + 1
    /\ lastCall' = "poll_operation"
    /\ imgPc' = "check"
    /\ imgArgs' = [max_wait_seconds |-> max_wait_seconds,
                   poll_interval_seconds |-> poll_interval_seconds]
    /\ imgStart' = now
    /\ imgPolls' = 0
    /\ imgResponses' = <<>>
    /\ imgResult' = NoImgResult
    /\ ForgetGenerate
    /\ ForgetPoll
    /\ UNCHANGED <<genVars, extVars, svcVars, keyCalls, videoDir, now, completed>>

\* a timeout comparison that never gives up
ImgTimedOutNever(elapsed, max_wait_seconds) == FALSE

\* if time.time() - start > max_wait_seconds
ImgTimedOut(elapsed, max_wait_seconds) == elapsed > max_wait_seconds

\* the timeout check at the top of the loop
ImgPollCheck ==
    /\ imgPc = "check"
    /\ IF ImgTimedOut(now - imgStart, imgArgs.max_wait_seconds)
       THEN /\ imgPc' = "idle"
            /\ imgResult' = [NoImgResult EXCEPT !.kind = "error", !.exc = "RuntimeError",
                                                !.message = <<"Operation timed out">>]
       ELSE /\ imgPc' = "request"
            /\ UNCHANGED imgResult
    /\ UNCHANGED <<genVars, extVars, svcVars, keyCalls, videoDir, now, calls, lastCall, lastGen, completed, pollVars,
                   imgArgs, imgStart, imgPolls, imgResponses>>

\* the exception requests raises for a failed request
RequestException(http) == IF http = "http_error" THEN "HTTPError" ELSE "ConnectionError"

\* a loop body that sleeps and retries after a failed request
ImgBranchRetry(resp) ==
    IF resp.http = "ok" /\ resp.done = "true" THEN "return" ELSE "sleep"

\* the branch of the loop body a poll response takes
ImgBranch(resp) ==
    IF resp.http # "ok" THEN "raise"
    ELSE IF resp.done = "true" THEN "return"
    ELSE "sleep"

\* requests.get(poll_url) taking d seconds and answering resp, and the handling of the answer
ImgPollRequest(d, resp) ==
    /\ imgPc = "request"
    /\ imgArgs.poll_interval_seconds + d >= 1
    /\ imgPolls' = imgPolls + 1
    /\ now' = now + d
    /\ imgResponses' = Append(imgResponses, resp)
    /\ LET branch == ImgBranch(resp)
       IN  /\ imgPc' = IF branch = "sleep" THEN "sleep" ELSE "idle"
           /\ imgResult' =
                 CASE branch = "raise" ->
                        [NoImgResult EXCEPT !.kind = "error",
                                            !.exc = RequestException(resp.http),
                                            !.message = <<resp.http>>]
                   [] branch = "return" ->
                        [NoImgResult EXCEPT !.kind = "data", !.data = resp]
                   [] OTHER -> imgResult
    /\ UNCHANGED <<genVars, extVars, svcVars, keyCalls, videoDir, calls, lastCall, lastGen, completed, pollVars,
                   imgArgs, imgStart>>

\* time.sleep(poll_interval_seconds)
ImgPollSleep ==
    /\ imgPc = "sleep"
    /\ imgPc' = "check"
    /\ now' = now + imgArgs.poll_interval_seconds
    /\ UNCHANGED <<genVars, extVars, svcVars, keyCalls, videoDir, calls, lastCall, lastGen, completed, pollVars,
                   imgArgs, imgStart, imgPolls, imgResponses, imgResult>>

(***************************************************************************)
(* Specifications.                                                         *)
(***************************************************************************)
\* the cache keys a caller of poll_video_operation has at hand: none, the one the
\* last generate_video_from_image returned, or a key of its own
TestCacheKey == <<"t">>

KnownCacheKeys ==
    {<<>>} \cup (IF lastGen.result.kind = "operation" THEN {lastGen.result.cacheKey} ELSE {})

\* the steps of a running poll_video_operation: requests take one of `delays` seconds,
\* polls are answered from `bodies` and downloads from `outcomes`
PollStep(delays, bodies, outcomes) ==
    \/ PollCheck
    \/ \E d \in delays, data \in bodies : PollRequest(d, data)
    \/ \E d \in delays, outcome \in outcomes : PollSaveVideo(d, outcome)
    \/ PollSleep

\* the steps of a running poll_operation
ImgPollStep ==
    \/ ImgPollCheck
    \/ \E d \in 0..MaxDelay, resp \in ImgResponses : ImgPollRequest(d, resp)
    \/ ImgPollSleep

\* the timing the flow polls with, and the answers it gets
FlowMaxWait == 1
FlowInterval == 1
FlowUri == <<"h", "t", "t", "p", ":", "/", "/", "e", ".", "x", "/", "v", "?", "a">>
FlowResponses ==
    { r \in PollResponses : /\ r.http # "transport_error"
                            /\ r.done # "absent"
                            /\ r.uri \in {<<>>, FlowUri}
                            /\ r.done = "true" => r.generateVideoResponse
                            /\ r.samples # "empty" }
FlowOutcomes == DownloadOutcomes

\* Generation, polling and the cache: every generate input, polls with one timing.
Init == InitWith(ApiKeys, {<<>>}, {NoEnv}, {EmptyDir, CachedDir})

GenerateAny ==
    /\ calls < MaxCalls
    /\ \E image_path \in ImagePaths, prompt \in FlowPrompts, aspect_ratio \in AspectRatios,
          silent_video \in BOOLEAN, post \in PostResponses :
           Generate(image_path, prompt, aspect_ratio, silent_video, post)

PollStartFlow ==
    /\ calls < MaxCalls
    /\ \E operation_name \in OperationNames, cache_key \in KnownCacheKeys :
           PollStart(operation_name, FlowMaxWait, FlowInterval, cache_key)

PollStepFlow == PollStep({0}, FlowResponses, FlowOutcomes)

Next == GenerateAny \/ PollStartFlow \/ PollStepFlow

Spec == Init /\ [][Next]_vars

\* The poll loops: every timing and request delay, cache keys of the caller's own.
InitLoop == InitWith(ApiKeys, {<<>>}, {NoEnv}, {EmptyDir})

PollStartAny ==
    /\ calls < MaxLoopCalls
    /\ \E operation_name \in OperationNames, cache_key \in {<<>>, TestCacheKey},
          max_wait_seconds \in 0..MaxWait, poll_interval_seconds \in 0..MaxInterval :
           PollStart(operation_name, max_wait_seconds, poll_interval_seconds, cache_key)

ImgPollStartAny ==
    /\ calls < MaxLoopCalls
    /\ \E max_wait_seconds \in 0..MaxWait, poll_interval_seconds \in 0..MaxInterval :
           ImgPollStart(max_wait_seconds, poll_interval_seconds)

\* the download outcomes of the poll loops: the failures, an empty body and one video
LoopOutcomes == { o \in DownloadOutcomes : o.content \in {<<>>, <<"v">>} }

PollStepAny == PollStep(0..MaxDelay, PollResponses, LoopOutcomes)

NextLoop == PollStartAny \/ PollStepAny \/ ImgPollStartAny \/ ImgPollStep

SpecLoop == InitLoop /\ [][NextLoop]_vars

\* poll_video_operation alone; a call that has started keeps running: the interpreter
\* executes the loop's next step
NextVideoLoop == PollStartAny \/ PollStepAny

FairLoop == InitLoop /\ [][NextVideoLoop]_vars /\ WF_vars(PollStepAny)

\* The video URL: every environment and base_url argument, one generate input.
InitUrl == InitWith({TestApiKey}, BaseUrlArgs, Environs, {EmptyDir, CachedDir})

GenerateOne ==
    /\ calls < MaxCalls
    /\ \E image_path \in { <<"/", "b", ".", "j", "p", "g">>, <<"/", "c", ".", "j", "p", "g">> }, post \in PostResponses :
           Generate(image_path, <<"a">>, <<"1", "6", ":", "9">>, TRUE, post)

NextUrl == GenerateOne \/ PollStartFlow \/ PollStepFlow

SpecUrl == InitUrl /\ [][NextUrl]_vars

\* generate_cache_key called directly, as test_generate_cache_key does.
KeyPaths == DOMAIN imageFiles \cup { <<"/", "n", ".", "j", "p", "g">> }
KeyPrompts == Prompts \cup { <<"a", ":", "1", "6">> }

CallGenerateCacheKey(image_path, prompt, aspect_ratio) ==
    /\ Idle
    /\ LET call == [image_path |-> image_path, prompt |-> prompt, aspect_ratio |-> aspect_ratio,
                    exc |-> IF ImageExists(image_path) THEN "" ELSE "FileNotFoundError",
                    key |-> IF ImageExists(image_path)
                            THEN generate_cache_key(image_path, prompt, aspect_ratio)
                            ELSE <<>>]
       IN  keyCalls' = IF Len(keyCalls) < 2 THEN Append(keyCalls, call)
                       ELSE <<keyCalls[2], call>>
    /\ UNCHANGED <<genVars, extVars, svcVars, videoDir, now, calls, lastCall, lastGen, completed, pollVars, imgVars>>

NextKey ==
    \E image_path \in KeyPaths, prompt \in KeyPrompts, aspect_ratio \in AspectRatios :
        CallGenerateCacheKey(image_path, prompt, aspect_ratio)

SpecKey == InitLoop /\ [][NextKey]_vars


(***************************************************************************)
(* NanaBabanaImageService.save_asset_from_operation.                       *)
(***************************************************************************)
\* output_dir = base_path / 'genai'
output_dir == PathJoin(BasePath, <<"g", "e", "n", "a", "i">>)

DigitChars == <<"0", "1", "2", "3", "4", "5", "6", "7", "8", "9">>

\* str(n) of a natural number
RECURSIVE Digits(_)

Digits(n) ==
    IF n < 10 THEN <<DigitChars[n + 1]>>
    ELSE Digits(n \div 10) \o <<DigitChars[(n % 10) + 1]>>

\* gen = resp.get('generateVideoResponse') or resp.get('generateImageResponse') or {}
\* samples = gen.get('generatedSamples') or []
AssetSamples(operation_data) ==
    IF operation_data.video.present THEN operation_data.video.generatedSamples
    ELSE IF operation_data.image.present THEN operation_data.image.generatedSamples
    ELSE <<>>

\* a URI lookup that falls back to a fixed address
AssetUriOrDefault(sample) ==
    Or(Or(sample.video_uri, sample.image_uri), <<"h", "t", "t", "p", ":", "/", "/", "a", ".", "t", "/", "i">>)

\* uri = sample.get('video', {}).get('uri') or sample.get('image', {}).get('uri')
AssetUri(sample) == Or(sample.video_uri, sample.image_uri)

\* a file name with another extension
AssetFilenamePng(cache_key, time) ==
    Or(cache_key, <<"l", "o", "o", "k", "b", "o", "o", "k", "_">> \o Digits(time)) \o <<".", "p", "n", "g">>

\* name = cache_key or f"lookbook_{int(time.time())}"
AssetName(cache_key, time) == Or(cache_key, <<"l", "o", "o", "k", "b", "o", "o", "k", "_">> \o Digits(time))

\* the file name of out_path
AssetFilename(cache_key, time) == AssetName(cache_key, time) \o <<".", "j", "p", "g">>

\* the download requests sent, the file written (or none) and the value returned or raised;
\* outcome is what requests.get(uri, timeout=60) answers if it is called
save_asset_from_operation(operation_data, cache_key, time, outcome) ==
    LET samples == AssetSamples(operation_data)
        fail(requests, exc, message) ==
            [requests |-> requests, written |-> FALSE, name |-> <<>>, content |-> <<>>,
             result |-> AssetError(exc, message)]
        save(requests, content) ==
            [requests |-> requests, written |-> TRUE,
             name |-> AssetFilename(cache_key, time), content |-> content,
             result |-> AssetPath(PathJoin(output_dir, AssetFilename(cache_key, time)))]
    IN  IF samples = <<>>
        THEN fail(<<>>, "RuntimeError", <<"No generated samples found in operation response">>)
        ELSE LET sample == samples[1]
             IN  IF sample.data # <<>>
                 THEN save(<<>>, sample.data)
                 ELSE IF AssetUri(sample) = <<>>
                 THEN fail(<<>>, "RuntimeError", <<"No URI or data found for generated asset">>)
                 ELSE IF outcome.http # "ok"
                 THEN fail(<<AssetUri(sample)>>, RequestException(outcome.http), <<>>)
                 ELSE save(<<AssetUri(sample)>>, outcome.content)

\* out_path.write_bytes(content)
WriteFile(dir, name, content) ==
    [f \in DOMAIN dir \cup {name} |-> IF f = name THEN content ELSE dir[f]]

\* a direct call of save_asset_from_operation
SaveAsset(operation_data, cache_key, outcome) ==
    /\ Idle
    /\ LET out == save_asset_from_operation(operation_data, cache_key, now, outcome)
       IN  /\ asset' = [operation_data |-> operation_data, cache_key |-> cache_key,
                        requests |-> out.requests,
                        status |-> IF out.requests = <<>> THEN "none" ELSE outcome.http,
                        content |-> IF out.requests = <<>> THEN <<>> ELSE outcome.content,
                        result |-> out.result]
           /\ outputDir' = IF out.written THEN WriteFile(outputDir, out.name, out.content)
                           ELSE outputDir
    /\ lastCall' = "save_asset"
    /\ lastGen' = NoGen
    /\ imgGen' = NoImgGen
    /\ UNCHANGED <<genVars, extVars, videoDir, calls, completed, pollVars, imgVars, keyCalls, now, svc,
                   uploadDir, lastRequest, generated, dlCall, resolveCalls>>

(***************************************************************************)
(* NanaBabanaImageService.generate_image.                                  *)
(***************************************************************************)
\* the images _load_image can open: a local file and a URL that answers
LoadableImages == { <<"m", ".", "j", "p", "g">>, <<"h", "t", "t", "p", ":", "/", "/", "i", ".", "t", "/", "w", "-", "b", "_", "m", "a", "i", "n", "_", "1", ".", "j", "p", "g">> }

\* the exception _load_image raises for an image it cannot open
LoadError(image_path) ==
    IF StartsWith(image_path, <<"h", "t", "t", "p", ":", "/", "/">>) \/ StartsWith(image_path, <<"h", "t", "t", "p", "s", ":", "/", "/">>)
    THEN "HTTPError"
    ELSE "FileNotFoundError"

\* the parts with inline_data, as generated samples
RECURSIVE InlineSamples(_)

InlineSamples(parts) ==
    IF parts = <<>> THEN <<>>
    ELSE (IF Head(parts) # <<>> THEN <<[NoSample EXCEPT !.data = Head(parts)]>> ELSE <<>>)
         \o InlineSamples(Tail(parts))

\* the images loaded, the SDK calls made and the value returned or raised by the service
\* (self); sdk_response is
\* what client.models.generate_content answers if it is called
generate_image(service, model_image, look_image, prompt, sdk_response) ==
    LET fail(loads, calls_made, exc, message) ==
            [loads |-> loads, sdk_calls |-> calls_made,
             result |-> [NoImgGenResult EXCEPT !.kind = "error", !.exc = exc,
                                               !.message = message]]
        images == <<model_image>> \o (IF look_image # <<>> THEN <<look_image>> ELSE <<>>)
    IN  IF ~is_available(service.api_key)
        THEN fail(<<>>, 0, "RuntimeError", <<"API key not configured">>)
        ELSE IF ~service.sdk
        THEN fail(<<>>, 0, "RuntimeError", <<"Google Gen AI SDK not available">>)
        ELSE IF model_image \notin LoadableImages
        THEN fail(<<model_image>>, 0, LoadError(model_image), <<>>)
        ELSE IF look_image # <<>> /\ look_image \notin LoadableImages
        THEN fail(images, 0, LoadError(look_image), <<>>)
        ELSE IF ~sdk_response.ok
        THEN fail(images, 1, "Timeout", <<>>)
        ELSE IF InlineSamples(sdk_response.parts) = <<>>
        THEN fail(images, 1, "RuntimeError", <<"No generated images found in response">>)
        ELSE [loads |-> images, sdk_calls |-> 1,
              result |-> [NoImgGenResult EXCEPT
                            !.kind = "operation", !.done = TRUE,
                            !.op = [NoOperationData EXCEPT
                                      !.image = [present |-> TRUE,
                                                 generatedSamples |->
                                                     InlineSamples(sdk_response.parts)]]]]

\* a direct call of generate_image
GenerateImage(model_image, look_image, prompt, sdk_response) ==
    /\ Idle
    /\ LET out == generate_image(svc, model_image, look_image, prompt, sdk_response)
       IN  imgGen' = [model_image |-> model_image, look_image |-> look_image,
                      prompt |-> prompt, loads |-> out.loads, sdk_calls |-> out.sdk_calls,
                      result |-> out.result]
    /\ lastCall' = "generate_image"
    /\ lastGen' = NoGen
    /\ asset' = NoAsset
    /\ UNCHANGED <<genVars, extVars, videoDir, calls, completed, pollVars, imgVars, keyCalls, now, svc,
                   outputDir, uploadDir, lastRequest, generated, dlCall, resolveCalls>>

(***************************************************************************)
(* The image service called directly, as test_agento_image_unified does,   *)
(* next to generate_video_from_image.                                      *)
(***************************************************************************)
Services ==
    { [api_key |-> TestApiKey, sdk |-> TRUE], [api_key |-> <<>>, sdk |-> TRUE],
      [api_key |-> TestApiKey, sdk |-> FALSE] }

InlineData == { <<"i">> }

AssetUris == { <<"h", "t", "t", "p", ":", "/", "/", "a", ".", "t", "/", "v">>, <<"h", "t", "t", "p", ":", "/", "/", "a", ".", "t", "/", "i">> }

Samples ==
    { [data |-> d, video_uri |-> v, image_uri |-> i] :
        d \in InlineData \cup {<<>>},
        v \in {<<>>, <<"h", "t", "t", "p", ":", "/", "/", "a", ".", "t", "/", "v">>},
        i \in {<<>>, <<"h", "t", "t", "p", ":", "/", "/", "a", ".", "t", "/", "i">>} }

\* generateVideoResponse / generateImageResponse: missing, without samples, with one
\* sample, and with two
Parts ==
    {NoPart, [present |-> TRUE, generatedSamples |-> <<>>]}
    \cup { [present |-> TRUE, generatedSamples |-> <<s>>] : s \in Samples }
    \cup { [present |-> TRUE,
            generatedSamples |-> <<[NoSample EXCEPT !.image_uri = <<"h", "t", "t", "p", ":", "/", "/", "a", ".", "t", "/", "i">>],
                                   [NoSample EXCEPT !.data = <<"i">>]>>] }

OperationDatas ==
    { [video |-> NoPart, image |-> p] : p \in Parts }
    \cup { [video |-> [present |-> TRUE,
                       generatedSamples |-> <<[NoSample EXCEPT !.video_uri = <<"h", "t", "t", "p", ":", "/", "/", "a", ".", "t", "/", "v">>]>>],
            image |-> NoPart] }
    \cup { [video |-> [present |-> TRUE, generatedSamples |-> <<>>],
            image |-> [present |-> TRUE,
                       generatedSamples |-> <<[NoSample EXCEPT !.data = <<"i">>]>>]] }

\* what requests.get(uri, timeout=60) answers
AssetOutcomes ==
    { [http |-> "http_error", content |-> <<>>], [http |-> "transport_error", content |-> <<>>],
      [http |-> "ok", content |-> <<"d">>] }

AssetCacheKeys == { <<>>, <<"k">> }

ImageArgs == LoadableImages \cup { <<"x", ".", "j", "p", "g">> }

SdkResponses ==
    { [ok |-> FALSE, parts |-> <<>>], [ok |-> TRUE, parts |-> <<>>],
      [ok |-> TRUE, parts |-> << <<>> >>], [ok |-> TRUE, parts |-> <<<<"i">>>>],
      [ok |-> TRUE, parts |-> << <<>>, <<"j">>, <<"i">> >>] }

InitImage ==
    /\ InitVideoWith(ApiKeys, {<<>>}, {NoEnv}, {CachedDir})
    /\ InitServiceWith(Services, {EmptyDir})

SaveAssetAny ==
    \E operation_data \in OperationDatas, cache_key \in AssetCacheKeys,
       outcome \in AssetOutcomes :
        SaveAsset(operation_data, cache_key, outcome)

GenerateImageAny ==
    \E model_image \in ImageArgs, look_image \in {<<>>, <<"m", ".", "j", "p", "g">>, <<"x", ".", "j", "p", "g">>},
       sdk_response \in SdkResponses :
        GenerateImage(model_image, look_image, <<"p">>, sdk_response)

\* generate_video_from_image for an image that exists and one that does not, the cache
\* holding the video of the first under the silent prompt
GeneratePre ==
    /\ calls < MaxCalls
    /\ \E image_path \in { <<"/", "b", ".", "j", "p", "g">>, <<"n", ".", "j", "p", "g">> }, silent_video \in BOOLEAN,
          post \in { r \in PostResponses : r.done # "false" /\ (r.http = "ok" => r.name # <<>>) } :
           Generate(image_path, <<"a">>, <<"1", "6", ":", "9">>, silent_video, post)

NextImage == SaveAssetAny \/ GenerateImageAny \/ GeneratePre

SpecImage == InitImage /\ [][NextImage]_vars

(***************************************************************************)
(* generate_descriptive_filename.                                          *)
(***************************************************************************)
LowerChars == <<"a", "b", "c", "d", "e", "f", "g", "h", "i", "j", "k", "l", "m", "n", "o", "p", "q", "r", "s", "t", "u", "v", "w", "x", "y", "z">>

UpperChars == <<"A", "B", "C", "D", "E", "F", "G", "H", "I", "J", "K", "L", "M", "N", "O", "P", "Q", "R", "S", "T", "U", "V", "W", "X", "Y", "Z">>

\* the set of elements of a sequence
Range(s) == { s[i] : i \in 1..Len(s) }

\* str.lower()
LowerChar(c) ==
    IF c \in Range(UpperChars)
    THEN LowerChars[CHOOSE i \in 1..Len(UpperChars) : UpperChars[i] = c]
    ELSE c

Lower(s) == [i \in 1..Len(s) |-> LowerChar(s[i])]

\* the index of the first c in s, or 0
IndexOf(s, c) ==
    IF \E i \in 1..Len(s) : s[i] = c THEN CHOOSE i \in 1..Len(s) : s[i] = c /\ \A j \in 1..(i - 1) : s[j] # c
    ELSE 0

\* the index of the last c in s, or 0
LastIndexOf(s, c) ==
    IF \E i \in 1..Len(s) : s[i] = c THEN CHOOSE i \in 1..Len(s) : s[i] = c /\ \A j \in (i + 1)..Len(s) : s[j] # c
    ELSE 0

\* s up to, not including, the first of the characters in stops
UpTo(s, stops) ==
    IF \E i \in 1..Len(s) : s[i] \in stops
    THEN SubSeq(s, 1, (CHOOSE i \in 1..Len(s) : s[i] \in stops /\ \A j \in 1..(i - 1) : s[j] \notin stops) - 1)
    ELSE s

\* urlparse(url).path of an http(s) URL: what follows the host, up to '?' or '#'
From(s, i) == IF i = 0 THEN <<>> ELSE SubSeq(s, i, Len(s))

UrlPath(url) ==
    From(UpTo(IF StartsWith(url, <<"h", "t", "t", "p", "s", ":", "/", "/">>) THEN SubSeq(url, 9, Len(url))
              ELSE SubSeq(url, 8, Len(url)),
              {"?", "#"}),
         IndexOf(UpTo(IF StartsWith(url, <<"h", "t", "t", "p", "s", ":", "/", "/">>) THEN SubSeq(url, 9, Len(url))
                      ELSE SubSeq(url, 8, Len(url)),
                      {"?", "#"}),
                 "/"))

\* Path(p).stem: the last component without its last suffix
StemOf(name, dot) == IF 1 < dot /\ dot < Len(name) THEN SubSeq(name, 1, dot - 1) ELSE name

Stem(p) ==
    StemOf(LastSegment(RStrip(p, {"/"}), "/"), LastIndexOf(LastSegment(RStrip(p, {"/"}), "/"), "."))

\* the length of the longest suffix of s made of characters that satisfy the class
SuffixRun(s, class) ==
    IF \A i \in 1..Len(s) : s[i] \in class THEN Len(s)
    ELSE Len(s) - (CHOOSE i \in 1..Len(s) :
                      s[i] \notin class /\ \A j \in (i + 1)..Len(s) : s[j] \in class)

\* re.sub(r'_\d+$', '', s)
\* s without its last d characters and the '_' before them, if there are such
DropRun(s, d) ==
    IF d > 0 /\ d < Len(s) /\ s[Len(s) - d] = "_" THEN SubSeq(s, 1, Len(s) - d - 1) ELSE s

DropNumberSuffix(s) == DropRun(s, SuffixRun(s, Range(DigitChars)))

\* re.sub(r'_[a-z]+_\d+$', '', s)
DropName(s, t) ==
    IF t # s /\ DropRun(t, SuffixRun(t, Range(LowerChars))) # t
    THEN DropRun(t, SuffixRun(t, Range(LowerChars)))
    ELSE s

DropNamedSuffix(s) == DropName(s, DropNumberSuffix(s))

\* re.sub(pattern, '_', s) for a pattern that matches one character outside keep
ReplaceOthers(s, keep) == [i \in 1..Len(s) |-> IF s[i] \in keep THEN s[i] ELSE "_"]

\* re.sub(r'_+', '_', s)
\* two collapsed pieces put together: one '_' is left where both have one
Glue(a, b) ==
    IF a[Len(a)] = "_" /\ b[1] = "_" THEN SubSeq(a, 1, Len(a) - 1) \o b ELSE a \o b

RECURSIVE Collapse(_)

Collapse(s) ==
    IF Len(s) < 2 THEN s
    ELSE Glue(Collapse(SubSeq(s, 1, Len(s) \div 2)),
              Collapse(SubSeq(s, Len(s) \div 2 + 1, Len(s))))

WordSet == Range(LowerChars) \cup Range(UpperChars) \cup Range(DigitChars) \cup {"_"}

\* extract_base_name
\* the cleaning of path_part
CleanName(path_part) ==
    Lower(LStrip(RStrip(Collapse(ReplaceOthers(DropNumberSuffix(DropNamedSuffix(path_part)),
                                               WordSet)),
                        {"_"}),
                 {"_"}))

extract_base_name(image_path) ==
    CleanName(IF StartsWith(image_path, <<"h", "t", "t", "p", ":", "/", "/">>) \/ StartsWith(image_path, <<"h", "t", "t", "p", "s", ":", "/", "/">>)
              THEN Stem(UrlPath(image_path))
              ELSE Stem(image_path))

\* re.findall(r'\b\w+\b', s): the maximal runs of word characters
RECURSIVE Words(_)

Words(s) ==
    IF s = <<>> THEN <<>>
    ELSE IF s[1] \notin WordSet THEN Words(Tail(s))
    ELSE <<UpTo(s, { c \in Range(s) : c \notin WordSet })>>
         \o Words(SubSeq(s, Len(UpTo(s, { c \in Range(s) : c \notin WordSet })) + 1, Len(s)))

stop_words ==
    { <<"a">>, <<"a", "n">>, <<"t", "h", "e">>, <<"a", "n", "d">>, <<"o", "r">>, <<"b", "u", "t">>, <<"i", "n">>, <<"o", "n">>,
      <<"a", "t">>, <<"t", "o">>, <<"f", "o", "r">>, <<"o", "f">>, <<"w", "i", "t", "h">>, <<"b", "y">>, <<"c", "r", "e", "a", "t", "e">>,
      <<"m", "a", "k", "e">>, <<"g", "e", "n", "e", "r", "a", "t", "e">>, <<"i", "m", "a", "g", "e">>, <<"p", "h", "o", "t", "o">>, <<"p", "i", "c", "t", "u", "r", "e">> }

GenericNames == { <<"i", "m", "a", "g", "e">>, <<"p", "h", "o", "t", "o">>, <<"p", "i", "c">> }

\* "_".join(words)
RECURSIVE JoinWords(_)

JoinWords(words) ==
    IF words = <<>> THEN <<>>
    ELSE IF Len(words) = 1 THEN words[1]
    ELSE words[1] \o <<"_">> \o JoinWords(Tail(words))

\* [word for word in words if word not in stop_words and len(word) > 2][:2]
FirstTwo(kept) == SubSeq(kept, 1, Min(2, Len(kept)))

MeaningfulWords(prompt) ==
    FirstTwo(SelectSeq(Words(Lower(prompt)), LAMBDA w : w \notin stop_words /\ Len(w) > 2))

\* the names shorter than this get words of the prompt appended
ShortName == 5

\* the longest file name returned as it is, and what is kept of a longer one
FilenameLimit == 100

FilenameKeep == 95

\* combined_base of the two base names
CombinedBase(base1, base2) ==
    IF base2 # <<>> /\ base1 # base2 THEN base1 \o <<"_">> \o base2 ELSE base1

\* combined_base with the words of the prompt, for a short or generic name
Described(combined, words) ==
    IF (Len(combined) < ShortName \/ combined \in GenericNames) /\ words # <<>>
    THEN combined \o <<"_">> \o JoinWords(words)
    ELSE combined

\* combined_base made safe for the file system
Sanitized(described) ==
    LStrip(RStrip(Collapse(ReplaceOthers(described, WordSet \cup {"-"})), {"_"}), {"_"})

\* the file name cut to its limit
LimitFilename(filename, timestamp) ==
    IF Len(filename) > FilenameLimit
    THEN SubSeq(filename, 1, FilenameKeep) \o <<"_">> \o timestamp
    ELSE filename

WithTimestamp(combined, timestamp) == LimitFilename(combined \o <<"_">> \o timestamp, timestamp)

generate_descriptive_filename(image1, image2, prompt, time) ==
    WithTimestamp(Sanitized(Described(CombinedBase(extract_base_name(image1),
                                                   IF image2 # <<>> THEN extract_base_name(image2)
                                                   ELSE <<>>),
                                      MeaningfulWords(prompt))),
                  Digits(time))
(***************************************************************************)
(* The image server (agento_image_server.py).                              *)
(***************************************************************************)
\* a request without a JSON body, one whose body is null, and a JSON object: the value
\* of each key, <<>> for a key that is missing or empty
NoPayload == [kind |-> "none", model_image |-> <<>>, look_image |-> <<>>, prompt |-> <<>>,
              api_key |-> <<>>]

NullPayload == [NoPayload EXCEPT !.kind = "null"]

EmptyPayload == [NoPayload EXCEPT !.kind = "object"]

\* what request.get_json() does with the body: Flask returns the parsed value, and for a
\* request that carries no JSON it raises (since 2.1) or returns None (before)
GetJsonOutcomes(payload) ==
    IF payload.kind = "none" THEN {"raises", "None"}
    ELSE IF payload.kind = "null" THEN {"None"}
    ELSE {"data"}

\* 'not data' for the value get_json returned
NoData(payload, json) == json = "None" \/ payload = EmptyPayload

\* the route of the URL map that matches the path, and whether it allows the method
Route(method, path) ==
    IF path = <<"/", "h", "e", "a", "l", "t", "h">> THEN (IF method = "GET" THEN "health_check" ELSE "405")
    ELSE IF path = <<"/", "g", "e", "n", "e", "r", "a", "t", "e">> THEN (IF method = "POST" THEN "generate_image" ELSE "405")
    ELSE IF /\ StartsWith(path, <<"/", "i", "m", "a", "g", "e", "s", "/">>)
            /\ Len(path) > 8
            /\ ~Contains(SubSeq(path, 9, Len(path)), <<"/">>)
    THEN (IF method = "GET" THEN "get_image" ELSE "405")
    ELSE "404"

\* jsonify({'success': False, 'error': error}), status
ErrorResponse(status, error) ==
    [NoHttp EXCEPT !.status = status, !.keys = {"success", "error"}, !.error = error]

\* a response given without writing a file
RouteAnswer(response) ==
    [response |-> response, written |-> FALSE, name |-> <<>>, content |-> <<>>]

\* the answer of the except clause to an exception of generate_image
RouteFailed(exc, message) ==
    RouteAnswer([ErrorResponse(500, <<exc>> \o message)
                   EXCEPT !.keys = @ \cup {"traceback"}, !.generations = 1])

\* the answer after save_asset_from_operation returned
RouteSaved(saved) ==
    [response |-> [NoHttp EXCEPT
                     !.status = 200,
                     !.keys = {"success", "status", "saved_path", "filename", "message",
                               "input"},
                     !.success = TRUE,
                     !.filename = LastSegment(saved.result.path, "/"),
                     !.generations = 1],
     written |-> saved.written, name |-> saved.name, content |-> saved.content]

\* the handler after service.generate_image(...) returned op or raised
RouteGenerated(op, payload, time) ==
    IF op.result.kind = "error"
    THEN RouteFailed(op.result.exc, op.result.message)
    ELSE RouteSaved(save_asset_from_operation(
                        op.result.op,
                        generate_descriptive_filename(payload.model_image, payload.look_image,
                                                      payload.prompt, time),
                        time, [http |-> "none", content |-> <<>>]))

\* api_key = data.get('api_key', GEMINI_API_KEY), and the constructor's
\* api_key or os.getenv('GEMINI_API_KEY', '')
RouteService(payload) == [api_key |-> Or(payload.api_key, svc.api_key), sdk |-> svc.sdk]

\* the response of POST /generate, the file it writes into output_dir (if any) and the
\* number of generate_image calls it makes
generate_image_route(payload, json, sdk_response, time) ==
    IF json = "raises"
    THEN RouteAnswer([ErrorResponse(500, <<"the request carries no JSON">>)
                        EXCEPT !.keys = @ \cup {"traceback"}])
    ELSE IF NoData(payload, json)
    THEN RouteAnswer(ErrorResponse(400, <<"No JSON payload provided">>))
    ELSE IF payload.model_image = <<>>
    THEN RouteAnswer(ErrorResponse(400, <<"model_image is required">>))
    ELSE IF payload.prompt = <<>>
    THEN RouteAnswer(ErrorResponse(400, <<"prompt is required">>))
    ELSE IF ~is_available(RouteService(payload).api_key)
    THEN RouteAnswer(ErrorResponse(500, <<"API key not configured">>))
    ELSE RouteGenerated(generate_image(RouteService(payload), payload.model_image,
                                       payload.look_image, payload.prompt, sdk_response),
                        payload, time)

\* the request and what was answered
Handled(method, path, payload, response) ==
    [response EXCEPT !.method = method, !.path = path, !.payload = payload]

\* the effect of POST /generate that was handled with the outcome out
Respond(path, payload, out) ==
    /\ Idle
    /\ lastRequest' = Handled("POST", path, payload, out.response)
    /\ outputDir' = IF out.written THEN WriteFile(outputDir, out.name, out.content)
                    ELSE outputDir
    /\ generated' = IF out.response.status = 200
                    THEN generated \cup {[filename |-> out.response.filename,
                                          content |-> out.content]}
                    ELSE generated
    /\ calls' = calls + 1
    /\ lastCall' = "request"
    /\ UNCHANGED <<genVars, extVars, videoDir, lastGen, completed, pollVars, imgVars, keyCalls, now, svc,
                   uploadDir, imgGen, asset, dlCall, resolveCalls>>

\* POST /generate
PostGenerate(path, payload, json, sdk_response) ==
    /\ Route("POST", path) = "generate_image"
    /\ json \in GetJsonOutcomes(payload)
    /\ Respond(path, payload, generate_image_route(payload, json, sdk_response, now))

\* the other requests leave the files as they are
Answer(method, path, response) ==
    /\ Idle
    /\ lastRequest' = Handled(method, path, NoPayload, response)
    /\ calls' = calls + 1
    /\ lastCall' = "request"
    /\ UNCHANGED <<genVars, extVars, videoDir, lastGen, completed, pollVars, imgVars, keyCalls, now, svc,
                   outputDir, uploadDir, imgGen, asset, generated, dlCall, resolveCalls>>

\* GET /images/<filename>
GetImage(path) ==
    /\ Route("GET", path) = "get_image"
    /\ LET filename == SubSeq(path, 9, Len(path))
       IN  Answer("GET", path,
                  IF filename \in DOMAIN uploadDir
                  THEN [NoHttp EXCEPT !.status = 200, !.body = uploadDir[filename]]
                  ELSE ErrorResponse(404, <<"Image ">> \o filename \o <<" not found">>))

\* GET /health
GetHealth(path) ==
    /\ Route("GET", path) = "health_check"
    /\ Answer("GET", path,
              [NoHttp EXCEPT !.status = 200, !.keys = {"status", "service", "api_available"}])

\* a request no route matches: the 404 handler
NotFound(method, path) ==
    /\ Route(method, path) = "404"
    /\ Answer(method, path, ErrorResponse(404, <<"Endpoint not found">>))

\* a request for a route that does not allow its method: Flask's 405 page
MethodNotAllowed(method, path) ==
    /\ Route(method, path) = "405"
    /\ Answer(method, path, [NoHttp EXCEPT !.status = 405])

\* int(time.time()) moves on
Tick ==
    /\ Idle
    /\ now' = now + 1
    /\ UNCHANGED <<videoVars, extVars, svcVars>>

(***************************************************************************)
(* The image server answering requests, as test_server.py sends them.      *)
(***************************************************************************)
\* seconds the server's clock may move on
MaxTicks == 1

\* a file that is in UPLOAD_FOLDER when the server starts
UploadedDir == <<"u", ".", "j", "p", "g">> :> <<"u">>

Payloads ==
    {NoPayload, NullPayload}
    \cup { [kind |-> "object", model_image |-> m, look_image |-> l, prompt |-> p,
            api_key |-> <<>>] :
             m \in {<<>>, <<"m", ".", "j", "p", "g">>, <<"h", "t", "t", "p", ":", "/", "/", "i", ".", "t", "/", "w", "-", "b", "_", "m", "a", "i", "n", "_", "1", ".", "j", "p", "g">>},
             l \in {<<>>, <<"x", ".", "j", "p", "g">>},
             p \in {<<>>, <<"p">>} }
    \cup { [kind |-> "object", model_image |-> <<"m", ".", "j", "p", "g">>, look_image |-> <<>>,
            prompt |-> <<"p">>, api_key |-> <<"K", "2">>] }

ServerSdkResponses ==
    { [ok |-> FALSE, parts |-> <<>>], [ok |-> TRUE, parts |-> <<<<"i">>>>],
      [ok |-> TRUE, parts |-> << <<>>, <<"j">> >>] }

\* the names asked of /images/: those POST /generate answered, one that is uploaded and
\* one that is unknown
ImageNames == { g.filename : g \in generated } \cup { <<"u", ".", "j", "p", "g">>, <<"q", ".", "j", "p", "g">> }

InitServer ==
    /\ InitVideoWith({TestApiKey}, {<<>>}, {NoEnv}, {EmptyDir})
    /\ InitServiceWith({ s \in Services : s.sdk }, {EmptyDir, UploadedDir})

PostGenerateAny ==
    /\ calls < MaxCalls
    /\ \E payload \in Payloads, json \in {"raises", "None", "data"},
          sdk_response \in ServerSdkResponses :
           PostGenerate(<<"/", "g", "e", "n", "e", "r", "a", "t", "e">>, payload, json, sdk_response)

GetImageAny ==
    /\ calls < MaxCalls
    /\ \E filename \in ImageNames : GetImage(<<"/", "i", "m", "a", "g", "e", "s", "/">> \o filename)

GetHealthAny ==
    /\ calls < MaxCalls
    /\ GetHealth(<<"/", "h", "e", "a", "l", "t", "h">>)

NotFoundAny ==
    /\ calls < MaxCalls
    /\ \E path \in { <<"/", "l", "i", "s", "t", "-", "i", "m", "a", "g", "e", "s">>, <<"/", "i", "m", "a", "g", "e", "s", "/", "a", "/", "b">> } : NotFound("GET", path)

MethodNotAllowedAny ==
    /\ calls < MaxCalls
    /\ MethodNotAllowed("GET", <<"/", "g", "e", "n", "e", "r", "a", "t", "e">>)

TickAny ==
    /\ now < MaxTicks
    /\ Tick

NextServer ==
    \/ PostGenerateAny
    \/ GetImageAny
    \/ GetHealthAny
    \/ NotFoundAny
    \/ MethodNotAllowedAny
    \/ TickAny

SpecServer == InitServer /\ [][NextServer]_vars

(***************************************************************************)
(* download_video_with_redirects and resolve_image_path called directly,   *)
(* as test_download_video_* and test_resolve_image_path_* call them.       *)
(***************************************************************************)
\* the request download_video_with_redirects sends for uri, and what it returns or raises
\* for the outcome of that request
download_video_with_redirects(uri, outcome) ==
    [uri |-> uri,
     url |-> DownloadUri(uri, api_key),
     x_goog_api_key |-> api_key,
     allow_redirects |-> TRUE,
     result |-> IF outcome.http = "http_error" THEN "HTTPError"
                ELSE IF outcome.http = "transport_error" THEN "ConnectionError"
                ELSE IF outcome.content = <<>> THEN "RuntimeError"
                ELSE "bytes",
     content |-> IF outcome.http = "ok" THEN outcome.content ELSE <<>>]

DownloadVideo(uri, outcome) ==
    /\ Idle
    /\ dlCall' = download_video_with_redirects(uri, outcome)
    /\ UNCHANGED <<videoVars, extVars, now, svc, outputDir, uploadDir, imgGen, asset, lastRequest,
                   generated, resolveCalls>>

\* the last two calls of resolve_image_path are kept
ResolveImagePath(image_path) ==
    /\ Idle
    /\ LET call == [image_path |-> image_path, path |-> resolve_image_path(image_path)]
       IN  resolveCalls' = IF Len(resolveCalls) < 2 THEN Append(resolveCalls, call)
                           ELSE <<resolveCalls[2], call>>
    /\ UNCHANGED <<videoVars, extVars, now, svc, outputDir, uploadDir, imgGen, asset, lastRequest,
                   generated, dlCall>>

\* URIs of the API host without a query, with a query, with a key and with a parameter
\* whose name ends in 'key', and URIs of other hosts
DirectUris ==
    { <<"h", "t", "t", "p", "s", ":", "/", "/", "g", "e", "n", "e", "r", "a", "t", "i", "v", "e", "l", "a", "n", "g", "u", "a", "g", "e", ".", "g", "o", "o", "g", "l", "e", "a", "p", "i", "s", ".", "c", "o", "m", "/", "f">>,
      <<"h", "t", "t", "p", "s", ":", "/", "/", "g", "e", "n", "e", "r", "a", "t", "i", "v", "e", "l", "a", "n", "g", "u", "a", "g", "e", ".", "g", "o", "o", "g", "l", "e", "a", "p", "i", "s", ".", "c", "o", "m", "/", "f", "?", "a", "l", "t", "=", "m", "e", "d", "i", "a">>,
      <<"h", "t", "t", "p", "s", ":", "/", "/", "g", "e", "n", "e", "r", "a", "t", "i", "v", "e", "l", "a", "n", "g", "u", "a", "g", "e", ".", "g", "o", "o", "g", "l", "e", "a", "p", "i", "s", ".", "c", "o", "m", "/", "f", "?", "k", "e", "y", "=", "K", "1">>,
      <<"h", "t", "t", "p", "s", ":", "/", "/", "g", "e", "n", "e", "r", "a", "t", "i", "v", "e", "l", "a", "n", "g", "u", "a", "g", "e", ".", "g", "o", "o", "g", "l", "e", "a", "p", "i", "s", ".", "c", "o", "m", "/", "f", "?", "a", "p", "i", "k", "e", "y", "=", "1">>,
      <<"h", "t", "t", "p", "s", ":", "/", "/", "s", ".", "t", "/", "v", ".", "m", "p", "4">>,
      <<"h", "t", "t", "p", "s", ":", "/", "/", "s", ".", "t", "/", "v", "?", "u", "=", "g", "e", "n", "e", "r", "a", "t", "i", "v", "e", "l", "a", "n", "g", "u", "a", "g", "e", ".", "g", "o", "o", "g", "l", "e", "a", "p", "i", "s", ".", "c", "o", "m">> }

\* image paths as the callers write them, each in the form pathlib keeps (no repeated or
\* trailing '/' after the prefix is taken off, no '.' component)
DirectPaths ==
    { <<"/", "b", ".", "j", "p", "g">>, <<"/", "t", "m", "p", "/", "p", "u", "b", "/", "m", "e", "d", "i", "a", "/", "x">>, <<"x">>, <<"p", "u", "b", "/", "m", "e", "d", "i", "a", "/", "x">>,
      <<"p", "u", "b", "/", "m", "e", "d", "i", "a", "/", "/", "x">>, <<"p", "u", "b", "/", "m", "e", "d", "i", "a", "/", "p", "u", "b", "/", "m", "e", "d", "i", "a", "/", "x">>, <<"c", "a", "t", "a", "l", "o", "g", "/", "t", ".", "j", "p", "g">>,
      <<"p", "u", "b", "/", "m", "e", "d", "i", "a", "/", "c", "a", "t", "a", "l", "o", "g", "/", "t", ".", "j", "p", "g">>, <<"p", "u", "b", "/", "m", "e", "d", "i", "a", "x">> }

InitCalls ==
    /\ InitVideoWith(ApiKeys, {<<>>}, {NoEnv}, {EmptyDir})
    /\ InitServiceWith({DefaultService}, {EmptyDir})

DownloadVideoAny ==
    \E uri \in DirectUris, outcome \in DownloadOutcomes : DownloadVideo(uri, outcome)

ResolveImagePathAny ==
    \E image_path \in DirectPaths : ResolveImagePath(image_path)

NextCalls == DownloadVideoAny \/ ResolveImagePathAny

SpecCalls == InitCalls /\ [][NextCalls]_vars

(***************************************************************************)
(* The mock Veo server (mock_veo_server.py).                               *)
(***************************************************************************)
\* str.split(sep)
RECURSIVE Split(_, _)

Split(s, sep) ==
    IF \A i \in 1..Len(s) : s[i] # sep THEN <<s>>
    ELSE <<UpTo(s, {sep})>> \o Split(SubSeq(s, Len(UpTo(s, {sep})) + 2, Len(s)), sep)

\* sep.join(parts)
RECURSIVE Join(_, _)

Join(parts, sep) ==
    IF parts = <<>> THEN <<>>
    ELSE IF Len(parts) = 1 THEN parts[1]
    ELSE parts[1] \o <<sep>> \o Join(Tail(parts), sep)

\* parsed_path.path.strip('/').split('/')
PathParts(path) == Split(LStrip(RStrip(path, {"/"}), {"/"}), "/")

\* the index of the first part that is 'operations', or 0
OperationIdx(path_parts) ==
    IF \E i \in 1..Len(path_parts) : path_parts[i] = <<"o", "p", "e", "r", "a", "t", "i", "o", "n", "s">>
    THEN CHOOSE i \in 1..Len(path_parts) :
            /\ path_parts[i] = <<"o", "p", "e", "r", "a", "t", "i", "o", "n", "s">>
            /\ \A j \in 1..(i - 1) : path_parts[j] # <<"o", "p", "e", "r", "a", "t", "i", "o", "n", "s">>
    ELSE 0

\* seconds after which the mock server reports an operation done
MockDelay == 5

\* a completion test that waits for more than the processing time
MockDoneLate(elapsed) == elapsed > MockDelay

\* not (elapsed < 5)
MockDone(elapsed) == elapsed >= MockDelay

\* str(uuid.uuid4()): an id no earlier operation has
NewOperationName(operations) ==
    <<"o", "p", "e", "r", "a", "t", "i", "o", "n", "s", "/">> \o Digits(Cardinality(DOMAIN operations) + 1)

\* the mock server answered the request, at this time
MockAnswer(method, response, operations, reported) ==
    /\ Idle
    /\ mock' = [operations |-> operations,
                last |-> [response EXCEPT !.method = method, !.at = now],
                reported |-> reported]
    /\ UNCHANGED <<videoVars, svcVars, now, nameCalls, cli>>

\* self.send_error(status, ...)
MockError(status) == [NoMockResponse EXCEPT !.status = status, !.body = "error"]

\* the operation stored under name, with its fields
StoreOperation(operations, name, payload) ==
    [n \in DOMAIN operations \cup {name} |->
        IF n = name THEN [done |-> FALSE, payload |-> payload, created_at |-> now]
        ELSE operations[n]]

\* do_POST: the submission of a generation request
MockPost(path, json_ok, key, payload) ==
    IF ~Contains(path, <<":", "p", "r", "e", "d", "i", "c", "t", "L", "o", "n", "g", "R", "u", "n", "n", "i", "n", "g">>)
    THEN MockAnswer("POST", MockError(404), mock.operations, mock.reported)
    ELSE IF ~json_ok
    THEN MockAnswer("POST", MockError(400), mock.operations, mock.reported)
    ELSE IF key = <<>>
    THEN MockAnswer("POST", MockError(401), mock.operations, mock.reported)
    ELSE MockAnswer("POST",
                    [NoMockResponse EXCEPT !.status = 200,
                                           !.name = NewOperationName(mock.operations),
                                           !.body = "operation"],
                    StoreOperation(mock.operations, NewOperationName(mock.operations), payload),
                    mock.reported)

\* operation['done'] = True
MarkDone(operations, name) == [operations EXCEPT ![name].done = TRUE]

\* the answer of do_GET for a stored operation after elapsed seconds
MockPollStored(name, elapsed) ==
    IF ~MockDone(elapsed)
    THEN MockAnswer("GET",
                    [NoMockResponse EXCEPT !.status = 200, !.name = name, !.body = "minimal"],
                    mock.operations, mock.reported)
    ELSE MockAnswer("GET",
                    [NoMockResponse EXCEPT
                       !.status = 200, !.name = name, !.done = TRUE,
                       !.body = IF mock.operations[name].payload = "images"
                                THEN "generateImageResponse" ELSE "generateVideoResponse"],
                    MarkDone(mock.operations, name),
                    mock.reported \cup {[name |-> name, at |-> now]})

\* do_GET for a path with an 'operations' part at idx
MockPoll(path_parts, idx) ==
    IF idx + 1 > Len(path_parts)
    THEN MockAnswer("GET", MockError(404), mock.operations, mock.reported)
    ELSE IF Join(SubSeq(path_parts, idx, Len(path_parts)), "/") \notin DOMAIN mock.operations
    THEN MockAnswer("GET", MockError(404), mock.operations, mock.reported)
    ELSE MockPollStored(Join(SubSeq(path_parts, idx, Len(path_parts)), "/"),
                        now - mock.operations[Join(SubSeq(path_parts, idx, Len(path_parts)),
                                                   "/")].created_at)

\* do_GET: operation polling and the video and image downloads
MockGetParts(path_parts) ==
    IF OperationIdx(path_parts) > 0
    THEN MockPoll(path_parts, OperationIdx(path_parts))
    ELSE IF path_parts[1] = <<"v", "i", "d", "e", "o", "s">> /\ Len(path_parts) > 1
    THEN MockAnswer("GET", [NoMockResponse EXCEPT !.status = 200, !.body = "video/mp4"],
                    mock.operations, mock.reported)
    ELSE IF path_parts[1] = <<"i", "m", "a", "g", "e", "s">> /\ Len(path_parts) > 1
    THEN MockAnswer("GET", [NoMockResponse EXCEPT !.status = 200, !.body = "image/png"],
                    mock.operations, mock.reported)
    ELSE MockAnswer("GET", MockError(404), mock.operations, mock.reported)

MockGet(path) == MockGetParts(PathParts(path))

(***************************************************************************)
(* The mock server answering submissions and polls while time passes.      *)
(***************************************************************************)
\* operations the mock server is asked to store, and the seconds its clock moves on
MaxOperations == 2
MaxMockTime == 7

\* the paths the clients ask for: the API's, with and without the version prefix
MockPostPaths ==
    { <<"/", "v", "1", "b", "e", "t", "a", "/", "m", "o", "d", "e", "l", "s", "/", "v", "e", "o", "-", "3", ".", "1", "-", "g", "e", "n", "e", "r", "a", "t", "e", "-", "p", "r", "e", "v", "i", "e", "w", ":", "p", "r", "e", "d", "i", "c", "t", "L", "o", "n", "g", "R", "u", "n", "n", "i", "n", "g">>, <<"/", "v", "1", "b", "e", "t", "a", "/", "m", "o", "d", "e", "l", "s">> }

MockGetPaths ==
    { <<"/", "v", "1", "b", "e", "t", "a", "/", "o", "p", "e", "r", "a", "t", "i", "o", "n", "s", "/", "1">>, <<"/", "o", "p", "e", "r", "a", "t", "i", "o", "n", "s", "/", "2">>, <<"/", "o", "p", "e", "r", "a", "t", "i", "o", "n", "s", "/">>,
      <<"/", "v", "1", "b", "e", "t", "a", "/", "o", "p", "e", "r", "a", "t", "i", "o", "n", "s", "/", "1", "/", "x">>, <<"/", "v", "i", "d", "e", "o", "s", "/", "v">>, <<"/", "i", "m", "a", "g", "e", "s", "/", "i">>, <<"/", "v", "i", "d", "e", "o", "s">> }

InitMock ==
    /\ InitVideoWith({TestApiKey}, {<<>>}, {NoEnv}, {EmptyDir})
    /\ InitServiceWith({DefaultService}, {EmptyDir})

MockPostAny ==
    /\ Cardinality(DOMAIN mock.operations) < MaxOperations
    /\ \E path \in MockPostPaths, json_ok \in BOOLEAN, key \in ApiKeys,
          payload \in {"video", "images"} :
           MockPost(path, json_ok, key, payload)

MockGetAny == \E path \in MockGetPaths : MockGet(path)

MockTickAny ==
    /\ now < MaxMockTime
    /\ Tick

NextMock == MockPostAny \/ MockGetAny \/ MockTickAny

SpecMock == InitMock /\ [][NextMock]_vars

(***************************************************************************)
(* generate_descriptive_filename called directly.                          *)
(***************************************************************************)
\* the length of the longest image name and prompt word given to the function
MaxNameLen == 120

LongWord == [i \in 1..MaxNameLen |-> "a"]

NameImages ==
    { <<"i", "m", "a", "g", "e", ".", "p", "n", "g">>, <<"h", "t", "t", "p", "s", ":", "/", "/", "x", ".", "i", "o", "/", "a", "/", "d", "r", "e", "s", "s", "_", "m", "a", "i", "n", "_", "1", ".", "j", "p", "g">>, LongWord \o <<".", "j", "p", "g">> }

NameLooks == { <<>>, LongWord \o <<"b", ".", "p", "n", "g">> }

NamePrompts == { <<"c", "r", "e", "a", "t", "e", " ", "r", "e", "d", " ", "d", "r", "e", "s", "s">>, LongWord \o <<" ">> \o LongWord }

\* int(time.time()) shortly after the epoch and today
NameTimes == { 5, 1700000000 }

CallGenerateDescriptiveFilename(image1, image2, prompt, time) ==
    /\ Idle
    /\ nameCalls' = (IF nameCalls = <<>> THEN <<>> ELSE <<nameCalls[Len(nameCalls)]>>)
                      \o <<[image1 |-> image1, image2 |-> image2, prompt |-> prompt,
                            timestamp |-> Digits(time),
                            filename |-> generate_descriptive_filename(image1, image2,
                                                                       prompt, time)]>>
    /\ UNCHANGED <<videoVars, svcVars, now, mock, cli>>

NextName ==
    \E image1 \in NameImages, image2 \in NameLooks, prompt \in NamePrompts, time \in NameTimes :
        CallGenerateDescriptiveFilename(image1, image2, prompt, time)

SpecName == InitMock /\ [][NextName]_vars

(***************************************************************************)
(* agento_video.py main: the console command, from the parsed arguments    *)
(* to the exit status.  One action per segment of main between two calls   *)
(* of the generator; the steps of poll_video_operation are those of the    *)
(* poll loop above.                                                        *)
(***************************************************************************)
\* poll_video_operation(operation['operationName'], 300, 10, operation.get('cacheKey'))
CliMaxWait == 300

CliInterval == 10

\* results.append({... 'cached': True})
CachedEntry(image_path, operation) ==
    [imagePath |-> image_path, success |-> TRUE, status |-> "completed",
     videoUrl |-> operation.videoUrl, videoPath |-> operation.videoPath, cached |-> TRUE]

\* results.append({... 'embedUrl': result_data.get('embedUrl')})
CompletedEntry(image_path, result_data) ==
    [imagePath |-> image_path, success |-> TRUE, status |-> "completed",
     videoUrl |-> result_data.videoUrl, videoPath |-> result_data.videoPath,
     embedUrl |-> result_data.embedUrl]

\* results.append({... 'status': 'processing', ...})
ProcessingEntry(image_path, operation) ==
    [imagePath |-> image_path, success |-> TRUE, status |-> "processing",
     operationName |-> operation.operationName,
     message |-> "Video generation started. Use --poll option to wait for completion."]

\* errors.append({...}) of the two except clauses
ErrorEntry(image_path, exc, message) ==
    [imagePath |-> image_path, success |-> FALSE,
     error |-> IF exc = "FileNotFoundError" THEN <<"Source image not found: ">> \o message
               ELSE message]

\* the object main prints when it cannot start
ErrorObject(error) == [success |-> FALSE, error |-> error]

\* the object printed for several image paths
Aggregate(image_paths, results, errors) ==
    [success |-> Len(errors) = 0, total |-> Len(image_paths), succeeded |-> Len(results),
     failed |-> Len(errors), results |-> results, errors |-> errors]

\* Prepare final result
FinalResult(image_paths, results, errors) ==
    IF Len(image_paths) = 1
    THEN IF results # <<>> THEN results[1] ELSE errors[1]
    ELSE Aggregate(image_paths, results, errors)

\* an exit status that ignores the errors
ExitStatusZero(errors) == 0

\* if errors: sys.exit(1); sys.exit(0)
ExitStatus(errors) == IF errors # <<>> THEN 1 ELSE 0

\* a --poll that is always taken as given
WantsPollAlways(args) == TRUE

\* if args.poll:
WantsPoll(args) == args.poll

\* a loop that ends with the first path that fails
AfterPathStopOnError(image_paths, processed, failed) ==
    IF processed = Len(image_paths) \/ failed THEN "print" ELSE "loop"

\* for image_path in image_paths: the next path, or the end of the loop
AfterPath(image_paths, processed, failed) ==
    IF processed = Len(image_paths) THEN "print" ELSE "loop"

\* the run after results.append(entry) for the current path
WithResult(c, entry) ==
    [c EXCEPT !.results = Append(c.results, entry),
              !.log = Append(c.log, "results"),
              !.pc = AfterPath(c.args.image_path, Len(c.log) + 1, FALSE)]

\* the run after errors.append(entry) for the current path
WithError(c, entry) ==
    [c EXCEPT !.errors = Append(c.errors, entry),
              !.log = Append(c.log, "errors"),
              !.pc = AfterPath(c.args.image_path, Len(c.log) + 1, TRUE)]

\* the run after print(json.dumps(result)) and sys.exit(status)
Exited(c, result, status) == [c EXCEPT !.pc = "exit", !.printed = result, !.exit = status]

\* main up to the loop: the API key, the generator, the availability check
MainStart(args, env_key, mkdir_ok) ==
    /\ cli.pc = "none"
    /\ Idle
    /\ IF Or(args.api_key, env_key) = <<>>
       THEN /\ cli' = Exited([cli EXCEPT !.args = args, !.env_key = env_key],
                             ErrorObject(<<"API key is required. Use --api-key or set GEMINI_API_KEY environment variable.">>),
                             1)
            /\ UNCHANGED api_key
       ELSE IF ~mkdir_ok
       THEN /\ cli' = Exited([cli EXCEPT !.args = args, !.env_key = env_key, !.raised = "OSError"],
                             ErrorObject(<<"OSError">>), 1)
            /\ UNCHANGED api_key
       ELSE IF ~is_available(Or(args.api_key, env_key))
       THEN /\ cli' = Exited([cli EXCEPT !.args = args, !.env_key = env_key],
                             ErrorObject(<<"Video service is not available. Please configure Gemini API key.">>),
                             1)
            /\ api_key' = Or(args.api_key, env_key)
       ELSE /\ cli' = [cli EXCEPT !.args = args, !.env_key = env_key, !.pc = "loop"]
            /\ api_key' = Or(args.api_key, env_key)
    /\ UNCHANGED <<base_url, ctor, videoDir, now, calls, lastCall, lastGen, completed, pollVars,
                   imgVars, keyCalls, svcVars, nameCalls, mock>>

\* the body of the loop for image_path after generate_video_from_image returned or raised
\* out: up to the call of poll_video_operation, or to the end of the body
MainGenerated(image_path, post, out) ==
    /\ calls' = calls + 1
    /\ lastCall' = "generate"
    /\ lastGen' = [args |-> [image_path |-> image_path, prompt |-> cli.args.prompt,
                             aspect_ratio |-> cli.args.aspect_ratio,
                             silent_video |-> cli.args.silent_video],
                   response |-> IF out.posts = 0 THEN NoGen.response ELSE post,
                   posts |-> out.posts,
                   result |-> out.result]
    /\ cli' = IF out.result.kind = "error"
              THEN WithError(cli, ErrorEntry(image_path, out.result.exc, out.result.message))
              ELSE IF out.result.fromCache
              THEN WithResult(cli, CachedEntry(image_path, out.result))
              ELSE IF WantsPoll(cli.args)
              THEN [cli EXCEPT !.pc = "poll"]
              ELSE WithResult(cli, ProcessingEntry(image_path, out.result))
    /\ ForgetPoll
    /\ ForgetImgPoll
    /\ ForgetService
    /\ UNCHANGED <<genVars, keyCalls, videoDir, now, completed, svc, outputDir, uploadDir,
                   lastRequest, generated, dlCall, resolveCalls, nameCalls, mock>>

\* the next image path of the loop
MainGenerate(post) ==
    /\ cli.pc = "loop"
    /\ Idle
    /\ MainGenerated(cli.args.image_path[Len(cli.log) + 1], post,
                     generate_video_from_image(cli.args.image_path[Len(cli.log) + 1],
                                               cli.args.prompt, cli.args.aspect_ratio,
                                               cli.args.silent_video, post))

\* generator.poll_video_operation(...) is called for the operation just submitted
MainPollStart ==
    /\ cli.pc = "poll"
    /\ lastCall = "generate"
    /\ PollStart(lastGen.result.operationName, CliMaxWait, CliInterval, lastGen.result.cacheKey)

\* poll_video_operation returned or raised: the rest of the loop body
MainPollDone ==
    /\ cli.pc = "poll"
    /\ lastCall = "poll"
    /\ Idle
    /\ cli' = IF pollResult.kind = "video"
              THEN WithResult(cli, CompletedEntry(cli.args.image_path[Len(cli.log) + 1], pollResult))
              ELSE WithError(cli, ErrorEntry(cli.args.image_path[Len(cli.log) + 1],
                                             pollResult.exc, pollResult.message))
    /\ UNCHANGED <<videoVars, svcVars, now, nameCalls, mock>>

\* after the loop: the final result is printed and the process exits
MainPrint ==
    /\ cli.pc = "print"
    /\ cli' = Exited(cli, FinalResult(cli.args.image_path, cli.results, cli.errors),
                     ExitStatus(cli.errors))
    /\ UNCHANGED <<videoVars, svcVars, now, nameCalls, mock>>

(***************************************************************************)
(* One run of the console command.                                         *)
(***************************************************************************)
\* image paths on one command line, and polls an operation answers before it is
\* either finished or never finishes
MaxPaths == 2
MaxPending == 1

\* an existing image, another path with the same bytes, a missing image
CliPaths == { <<"a", ".", "j", "p", "g">>, <<"/", "b", ".", "j", "p", "g">>, <<"n", ".", "j", "p", "g">> }

CliArgs ==
    { [image_path |-> p, prompt |-> <<"a", " ">>, aspect_ratio |-> <<"1", "6", ":", "9">>,
       silent_video |-> TRUE, poll |-> poll, api_key |-> key] :
        p \in UNION { [1..n -> CliPaths] : n \in 1..MaxPaths },
        poll \in BOOLEAN, key \in ApiKeys }

CliPosts ==
    { r \in PostResponses : r.done \in {"absent", "false"} /\ (r.http = "ok" => r.name # <<>>) }

CliResponses ==
    { r \in FlowResponses : r.http = "ok" => (r.done = "true" => (r.rai \/ r.samples = "uri")) }

CliOutcomes == { o \in DownloadOutcomes : o.http # "transport_error" /\ o.content \in {<<>>, <<"v">>} }

\* an operation that did not finish within MaxPending polls never finishes
CliBodies == IF polls < MaxPending THEN CliResponses ELSE { r \in CliResponses : r.done = "false" }

InitCli == InitWith({<<>>}, {<<>>}, {NoEnv}, {EmptyDir, CachedDir})

MainStartAny ==
    \E args \in CliArgs, env_key \in ApiKeys, mkdir_ok \in BOOLEAN : MainStart(args, env_key, mkdir_ok)

MainGenerateAny == \E post \in CliPosts : MainGenerate(post)

MainPollStep ==
    /\ cli.pc = "poll"
    /\ PollStep({0}, CliBodies, CliOutcomes)

NextCli ==
    MainStartAny \/ MainGenerateAny \/ MainPollStart \/ MainPollStep \/ MainPollDone \/ MainPrint

SpecCli == InitCli /\ [][NextCli]_vars

(***************************************************************************)
(* Claims.                                                                 *)
(***************************************************************************)
TypeOK ==
    /\ pollPc \in {"idle", "check", "request", "download", "sleep"}
    /\ imgPc \in {"idle", "check", "request", "sleep"}
    /\ polls = Len(responses)
    /\ imgPolls = Len(imgResponses)

\* seconds since poll_video_operation took start_time
Elapsed == now - start_time

\* a RuntimeError whose message contains 'timeout'
IsTimeout(r) ==
    /\ r.kind = "error"
    /\ r.exc = "RuntimeError"
    /\ \E i \in 1..Len(r.message) : r.message[i] = "timeout"

\* every poll response of the call so far reported done=false (or no done field)
AllNotDone == \A i \in 1..Len(responses) : responses[i] = "not_done"

\* a poll_video_operation call that got past the availability check has ended
PollEnded == lastCall = "poll" /\ pollPc = "idle" /\ is_available(api_key)

\* a call whose responses all said not done ends only by the timeout error, late enough
C1_EndsByTimeout ==
    (PollEnded /\ AllNotDone) =>
        (IsTimeout(pollResult) /\ Elapsed > pollArgs.max_wait_seconds)

\* the loop polls again after a not-done response unless the time is up, and then raises
C1_LoopStep ==
    /\ (pollPc = "request" /\ polls' = polls + 1 /\ lastData'.http = "ok" /\ ~GetDone(lastData'))
          => pollPc' = "sleep"
    /\ pollPc = "sleep" => pollPc' = "check"
    /\ (pollPc = "check" /\ Elapsed <= pollArgs.max_wait_seconds)
          => (pollPc' = "request" /\ pollResult' = pollResult)
    /\ (pollPc = "check" /\ Elapsed > pollArgs.max_wait_seconds)
          => (pollPc' = "idle" /\ IsTimeout(pollResult'))

\* C1: poll_video_operation keeps polling while the responses report done=false, raises
\* a RuntimeError containing 'timeout' once the elapsed time exceeds max_wait_seconds,
\* and, time advancing between polls, every call terminates with a result or an error.
C1_PollTerminates ==
    /\ [](C1_EndsByTimeout)
    /\ [][C1_LoopStep]_vars
    /\ ((pollPc # "idle") ~> (pollPc = "idle"))

\* a call timed out after several not-done responses
C1_Witness ==
    /\ PollEnded
    /\ IsTimeout(pollResult)
    /\ polls >= 2
    /\ AllNotDone

\* the last poll response is a done response whose generateVideoResponse carries
\* raiMediaFilteredReasons
FilteredResponse ==
    /\ lastData.http = "ok"
    /\ lastData.done = "true"
    /\ lastData.response
    /\ lastData.generateVideoResponse
    /\ lastData.rai

\* a RuntimeError that says the generation was blocked by safety filters and names `reasons`
IsSafetyError(r, reasons) ==
    /\ r.kind = "error"
    /\ r.exc = "RuntimeError"
    /\ r.message[1] = "Video generation was blocked by safety filters. "
    /\ \A i \in 1..Len(reasons) : \E j \in 1..Len(r.message) : r.message[j] = reasons[i]

\* the step in which poll_video_operation receives a poll response
ReceivesResponse == pollPc = "request" /\ polls' = polls + 1

\* C4: a done response with raiMediaFilteredReasons makes poll_video_operation raise a
\* RuntimeError that names the reasons and says the generation was blocked by safety
\* filters, also when generatedSamples is present; nothing is downloaded and no file
\* is written to the video directory.
C4_SafetyFilterRaises ==
    [][ (ReceivesResponse /\ FilteredResponse')
           => /\ pollPc' = "idle"
              /\ IsSafetyError(pollResult', lastData'.reasons)
              /\ downloads' = <<>>
              /\ videoDir' = videoDir ]_vars

\* a filtered response that also carried a generated sample was rejected
C4_Witness ==
    /\ PollEnded
    /\ FilteredResponse
    /\ lastData.samples = "uri"
    /\ IsSafetyError(pollResult, FilterReasons)
    /\ downloads = <<>>

\* the last poll response is a done response carrying generatedSamples[0].video.uri
DoneWithUri ==
    /\ lastData.http = "ok"
    /\ lastData.done = "true"
    /\ lastData.response
    /\ lastData.generateVideoResponse
    /\ lastData.samples = "uri"

\* the responses received are k not-done responses followed by one done response
NotDoneThenDone ==
    /\ Len(responses) >= 1
    /\ responses[Len(responses)] = "done"
    /\ \A i \in 1..(Len(responses) - 1) : responses[i] = "not_done"

\* the number of not-done responses received
NotDoneCount == Cardinality({ i \in 1..Len(responses) : responses[i] = "not_done" })

\* the file save_video writes for the cache_key the call was given
KeyedFile == VideoFilename(pollArgs.cache_key)

\* what C5 promises of a call that was given a cache_key: k+1 polls, one download of
\* the URI, and, the download delivering a body, the file and the completed result
C5_Outcome ==
    /\ polls = NotDoneCount + 1
    /\ Len(downloads) = 1
    /\ downloads[1].uri = DownloadUri(lastData.uri, api_key)
    /\ (downloads[1].status = "ok" /\ downloads[1].content # <<>>)
          => /\ KeyedFile \in DOMAIN videoDir
             /\ videoDir[KeyedFile] = downloads[1].content
             /\ pollResult.kind = "video"
             /\ pollResult.status = "completed"
             /\ pollResult.videoPath = PathJoin(video_dir, KeyedFile)
             /\ pollResult.videoUrl # <<>>
             /\ pollResult.embedUrl # <<>>

\* C5 as stated, for every done response carrying generatedSamples[0].video.uri
C5_AsStated ==
    (PollEnded /\ pollArgs.cache_key # <<>> /\ NotDoneThenDone /\ DoneWithUri) => C5_Outcome

\* C5 (amended): k not-done responses followed by a done response that carries
\* generatedSamples[0].video.uri and no raiMediaFilteredReasons give exactly k+1 poll
\* requests and one download of that URI; a download that delivers a non-empty body is
\* written to video_dir/veo_<cache_key>.mp4 and the call returns status 'completed'
\* with videoUrl, videoPath and embedUrl.
C5_PollSuccess ==
    (PollEnded /\ pollArgs.cache_key # <<>> /\ NotDoneThenDone /\ DoneWithUri /\ ~lastData.rai)
        => C5_Outcome

\* a call saved the video after two not-done responses
C5_Witness ==
    /\ PollEnded
    /\ pollArgs.cache_key # <<>>
    /\ NotDoneThenDone
    /\ DoneWithUri
    /\ ~lastData.rai
    /\ polls = 3
    /\ pollResult.kind = "video"
    /\ KeyedFile \in DOMAIN videoDir

\* the tags `responses` gives a failed poll request
FailureTags == {"http_error", "transport_error"}

\* a failed poll request is the last request of poll_video_operation, which ends with
\* RuntimeError 'Video operation polling failed'
C8_VideoPollFails ==
    \A i \in 1..Len(responses) :
        responses[i] \in FailureTags
            => /\ i = Len(responses)
               /\ polls = i
               /\ pollPc = "idle"
               /\ pollResult.kind = "error"
               /\ pollResult.exc = "RuntimeError"
               /\ pollResult.message[1] = "Video operation polling failed: "

\* a failed poll request is the last request of poll_operation, which ends with the
\* exception of the request
C8_ImagePollFails ==
    \A i \in 1..Len(imgResponses) :
        imgResponses[i].http # "ok"
            => /\ i = Len(imgResponses)
               /\ imgPolls = i
               /\ imgPc = "idle"
               /\ imgResult.kind = "error"
               /\ imgResult.exc = RequestException(imgResponses[i].http)

\* C8: a poll request that fails with an HTTP or transport error ends the polling call
\* at once, with no further poll request: poll_operation propagates the request's
\* exception and poll_video_operation raises RuntimeError 'Video operation polling failed'.
C8_PollFailureEndsCall == C8_VideoPollFails /\ C8_ImagePollFails

\* poll_operation ended with the HTTP error of its second request, before max_wait_seconds
C8_Witness ==
    /\ lastCall = "poll_operation"
    /\ imgPc = "idle"
    /\ imgPolls = 2
    /\ imgResponses[2].http = "http_error"
    /\ imgResult.exc = "HTTPError"
    /\ now - imgStart < imgArgs.max_wait_seconds

\* a poll_operation call has ended
ImgPollEnded == lastCall = "poll_operation" /\ imgPc = "idle"

\* every response of poll_operation so far was received and not done
ImgAllNotDone ==
    \A i \in 1..Len(imgResponses) : imgResponses[i].http = "ok" /\ imgResponses[i].done # "true"

\* poll_operation returns the first done response, after one GET per response
C9_Returns ==
    imgResult.kind = "data"
        => /\ ImgPollEnded
           /\ imgPolls = Len(imgResponses)
           /\ imgPolls >= 1
           /\ imgResult.data = imgResponses[imgPolls]
           /\ imgResponses[imgPolls].http = "ok"
           /\ imgResponses[imgPolls].done = "true"
           /\ \A i \in 1..(imgPolls - 1) :
                 imgResponses[i].http = "ok" /\ imgResponses[i].done # "true"

\* with no done response the call ends only by 'Operation timed out', after max_wait_seconds
C9_TimesOut ==
    (ImgPollEnded /\ ImgAllNotDone)
        => /\ imgResult.kind = "error"
           /\ imgResult.exc = "RuntimeError"
           /\ imgResult.message = <<"Operation timed out">>
           /\ now - imgStart > imgArgs.max_wait_seconds
           /\ imgPolls = Len(imgResponses)

\* the loop issues the next GET while the time is not up, and raises once it is
C9_LoopStep ==
    /\ (imgPc = "check" /\ now - imgStart <= imgArgs.max_wait_seconds)
          => (imgPc' = "request" /\ imgResult' = imgResult)
    /\ (imgPc = "check" /\ now - imgStart > imgArgs.max_wait_seconds)
          => (imgPc' = "idle" /\ imgResult'.message = <<"Operation timed out">>)
    /\ imgPc = "sleep" => imgPc' = "check"

\* C9: poll_operation returns the data of the first response whose done is truthy, after
\* exactly one GET per response received (k not-done responses, then k+1 GETs); with no
\* done response it raises RuntimeError 'Operation timed out' once the elapsed time
\* exceeds max_wait_seconds.
C9_PollOperation == [](C9_Returns /\ C9_TimesOut) /\ [][C9_LoopStep]_vars

\* poll_operation returned the done response of its third GET
C9_Witness ==
    /\ ImgPollEnded
    /\ imgResult.kind = "data"
    /\ imgPolls = 3
    /\ imgResult.data.body = "r2"

\* poll_operation timed out
C9_TimeoutWitness ==
    /\ ImgPollEnded
    /\ imgResult.message = <<"Operation timed out">>
    /\ imgPolls >= 2

\* the last call was generate_video_from_image and got past its two precondition
\* checks: the API key is configured and the resolved source image exists
GenerateRan ==
    /\ lastCall = "generate"
    /\ is_available(api_key)
    /\ ImageExists(resolve_image_path(lastGen.args.image_path))

\* the cache key of (image bytes, final prompt, aspect ratio) of the last generate call
LastCacheKey ==
    generate_cache_key(resolve_image_path(lastGen.args.image_path),
                       FinalPrompt(lastGen.args.prompt, lastGen.args.silent_video),
                       lastGen.args.aspect_ratio)

\* the video directory holds veo_<cache_key>.mp4 for the last generate call; the call
\* leaves the directory as it found it
CacheFileExists == VideoFilename(LastCacheKey) \in DOMAIN videoDir

\* C2: if veo_<cache_key>.mp4 already exists for the cache key of (image bytes, final
\* prompt, aspect ratio), generate_video_from_image returns fromCache=True, status
\* 'completed' and that file's path, and sends no submit request.
C2_CacheHit ==
    (GenerateRan /\ CacheFileExists)
        => /\ lastGen.result.kind = "cached"
           /\ lastGen.result.fromCache
           /\ lastGen.result.status = "completed"
           /\ lastGen.result.videoPath = PathJoin(video_dir, VideoFilename(LastCacheKey))
           /\ lastGen.posts = 0

\* a call for another path with the same image bytes hit the file that was there before
C2_Witness ==
    /\ GenerateRan
    /\ CacheFileExists
    /\ videoDir = CachedDir
    /\ lastGen.args.image_path = <<"a", ".", "j", "p", "g">>
    /\ lastGen.result.fromCache
    /\ lastGen.posts = 0

\* the image bytes, prompt, aspect ratio and silent flag of the last generate call
LastInputs ==
    [image |-> imageFiles[resolve_image_path(lastGen.args.image_path)],
     prompt |-> lastGen.args.prompt,
     aspect_ratio |-> lastGen.args.aspect_ratio,
     silent_video |-> lastGen.args.silent_video]

\* C3: once generate_video_from_image has returned an operation with cacheKey K and
\* poll_video_operation(operationName, cache_key=K) has completed, every later
\* generate_video_from_image with the same image bytes, prompt, aspect ratio and
\* silent flag is a cache hit: fromCache=True, the videoPath the poll returned, and no
\* submit request.
C3_CompletedIsCached ==
    GenerateRan =>
        \A c \in completed :
            c.inputs = LastInputs
                => /\ lastGen.result.kind = "cached"
                   /\ lastGen.result.fromCache
                   /\ lastGen.result.videoPath = c.videoPath
                   /\ lastGen.posts = 0

\* a later call with the same bytes under another path hit the polled video
C3_Witness ==
    /\ GenerateRan
    /\ lastGen.args.image_path = <<"/", "b", ".", "j", "p", "g">>
    /\ lastGen.args.silent_video
    /\ \E c \in completed : c.inputs = LastInputs /\ lastGen.result.videoPath = c.videoPath
    /\ videoDir # CachedDir

\* C10: on a cache miss generate_video_from_image sends exactly one submit request and
\* returns operationName = the response's 'name', cacheKey = the cache key of (image
\* bytes, final prompt, aspect ratio), done = the response's done flag (false when
\* absent) and status 'completed' if and only if done is true, otherwise 'running'.
C10_CacheMiss ==
    (GenerateRan /\ ~CacheFileExists)
        => /\ lastGen.posts = 1
           /\ (lastGen.response.http = "ok" /\ lastGen.response.name # <<>>)
                 => /\ lastGen.result.kind = "operation"
                    /\ lastGen.result.operationName = lastGen.response.name
                    /\ lastGen.result.cacheKey = LastCacheKey
                    /\ lastGen.result.done = (lastGen.response.done = "true")
                    /\ lastGen.result.status =
                          (IF lastGen.response.done = "true" THEN "completed" ELSE "running")

\* a miss whose response had no done field came back as a running operation
C10_Witness ==
    /\ GenerateRan
    /\ ~CacheFileExists
    /\ lastGen.posts = 1
    /\ lastGen.response.done = "absent"
    /\ lastGen.result.kind = "operation"
    /\ lastGen.result.status = "running"
    /\ ~lastGen.result.done

\* the two most recent generate_cache_key calls both returned a key
TwoKeys ==
    /\ Len(keyCalls) = 2
    /\ keyCalls[1].exc = ""
    /\ keyCalls[2].exc = ""

\* C6: generate_cache_key is deterministic: two calls with the same image file content,
\* the same prompt and the same aspect ratio return the same key, and two calls that
\* differ only in the prompt return different keys.
C6_CacheKeyDeterministic ==
    TwoKeys =>
        LET a == keyCalls[1]
            b == keyCalls[2]
            sameImage == imageFiles[a.image_path] = imageFiles[b.image_path]
        IN  /\ (sameImage /\ a.prompt = b.prompt /\ a.aspect_ratio = b.aspect_ratio)
                  => a.key = b.key
            /\ (sameImage /\ a.prompt # b.prompt /\ a.aspect_ratio = b.aspect_ratio)
                  => a.key # b.key

\* two files with the same bytes under different paths gave one key, and the next
\* pair, differing by a trailing blank in the prompt, gave two
C6_Witness ==
    /\ TwoKeys
    /\ keyCalls[1].image_path # keyCalls[2].image_path
    /\ imageFiles[keyCalls[1].image_path] = imageFiles[keyCalls[2].image_path]
    /\ keyCalls[1].aspect_ratio = keyCalls[2].aspect_ratio
    /\ \/ keyCalls[1].prompt = keyCalls[2].prompt /\ keyCalls[1].key = keyCalls[2].key
       \/ /\ keyCalls[1].prompt = <<"a">>
          /\ keyCalls[2].prompt = <<"a", " ">>
          /\ keyCalls[1].key # keyCalls[2].key

\* the generator was constructed without a base_url argument
NoBaseUrlArg == ctor.base_url_arg = <<>>

\* the URL the statement of C7 expects for a saved file name
RelativeVideoUrl(filename) == <<"/", "m", "e", "d", "i", "a", "/", "v", "i", "d", "e", "o", "/">> \o filename

\* the last call reported a videoUrl: a cache hit of generate_video_from_image (the
\* dictionary get_cached_video returned) or a successful poll_video_operation
ReportsVideoUrl ==
    \/ lastCall = "generate" /\ lastGen.result.kind = "cached"
    \/ lastCall = "poll" /\ pollPc = "idle" /\ pollResult.kind = "video"

ReportedVideoUrl ==
    IF lastCall = "generate" THEN lastGen.result.videoUrl ELSE pollResult.videoUrl

ReportedVideoPath ==
    IF lastCall = "generate" THEN lastGen.result.videoPath ELSE pollResult.videoPath

\* C7: for a generator constructed with only an API key and a base path (no base_url
\* argument), the videoUrl reported by get_cached_video, by a cache-hit
\* generate_video_from_image and by a successful poll_video_operation equals
\* '/media/video/<filename>' for the saved veo_<key>.mp4 file name: it starts with
\* '/media/video/' and ends with '.mp4'.
C7_RelativeVideoUrl ==
    (NoBaseUrlArg /\ ReportsVideoUrl)
        => /\ ReportedVideoUrl = RelativeVideoUrl(LastSegment(ReportedVideoPath, "/"))
           /\ StartsWith(ReportedVideoUrl, <<"/", "m", "e", "d", "i", "a", "/", "v", "i", "d", "e", "o", "/">>)
           /\ EndsWith(ReportedVideoUrl, <<".", "m", "p", "4">>)

\* with no base_url argument and no environment variable the cache hit reports the
\* URL under the default domain
C7_Witness ==
    /\ NoBaseUrlArg
    /\ ctor.environ = NoEnv
    /\ ReportsVideoUrl
    /\ lastCall = "generate"
    /\ ReportedVideoUrl = <<"h", "t", "t", "p", "s", ":", "/", "/", "a", "p", "p", ".", "l", "c", ".", "t", "e", "s", "t", "/", "m", "e", "d", "i", "a", "/", "v", "i", "d", "e", "o", "/">> \o LastSegment(ReportedVideoPath, "/")

\* the last call was save_asset_from_operation
AssetCalled == lastCall = "save_asset"

\* the samples the call read: those of generateVideoResponse if the response has one, else
\* those of generateImageResponse
AssetCallSamples ==
    IF asset.operation_data.video.present THEN asset.operation_data.video.generatedSamples
    ELSE asset.operation_data.image.generatedSamples

\* output_dir/<cache_key>.jpg is what the call returned, and the file holds content
SavedAs(content) ==
    LET file == asset.cache_key \o <<".", "j", "p", "g">>
    IN  /\ asset.result.kind = "path"
        /\ asset.result.path = BasePath \o <<"/", "g", "e", "n", "a", "i", "/">> \o file
        /\ file \in DOMAIN outputDir
        /\ outputDir[file] = content

\* C11: save_asset_from_operation writes the first generated sample to
\* output_dir/<cache_key>.jpg and returns that path, and the file content equals the asset
\* bytes: the sample's inline image data when present (and then no download request is
\* made), otherwise the bytes downloaded from the sample's video.uri or image.uri.
C11_SaveAsset ==
    (AssetCalled /\ asset.cache_key # <<>> /\ AssetCallSamples # <<>>)
        => LET sample == AssetCallSamples[1]
           IN  /\ sample.data # <<>>
                     => (SavedAs(sample.data) /\ asset.requests = <<>>)
               /\ (sample.data = <<>> /\ asset.status = "ok")
                     => /\ SavedAs(asset.content)
                        /\ Len(asset.requests) = 1
                        /\ asset.requests[1] \in {sample.video_uri, sample.image_uri} \ {<<>>}
               /\ (sample.data = <<>> /\ sample.video_uri # <<>>)
                     => asset.requests = <<sample.video_uri>>
               /\ (sample.data = <<>> /\ sample.video_uri = <<>> /\ sample.image_uri # <<>>)
                     => asset.requests = <<sample.image_uri>>

\* the first of two samples, carrying only image.uri, was downloaded and saved under the
\* cache key
C11_Witness ==
    /\ AssetCalled
    /\ asset.cache_key = <<"k">>
    /\ Len(AssetCallSamples) = 2
    /\ asset.requests = <<<<"h", "t", "t", "p", ":", "/", "/", "a", ".", "t", "/", "i">>>>
    /\ SavedAs(<<"d">>)

\* a save_asset_from_operation step
SaveAssetStep == lastCall' = "save_asset"

\* the call raised exc, with this message if one is given, and the output directory is
\* as it was
AssetFailed(exc, message) ==
    /\ asset'.result.kind = "error"
    /\ asset'.result.exc = exc
    /\ message # <<>> => asset'.result.message = message
    /\ outputDir' = outputDir

\* C12: save_asset_from_operation fails without writing any file in the output directory
\* in each error case: an empty or missing generatedSamples list raises RuntimeError 'No
\* generated samples found', a first sample with neither inline data nor a URI raises
\* RuntimeError 'No URI or data found for generated asset', and a failed download raises
\* the HTTP error.
C12_SaveAssetFails ==
    [][SaveAssetStep =>
        LET op == asset'.operation_data
            samples == IF op.video.present THEN op.video.generatedSamples
                       ELSE op.image.generatedSamples
        IN  /\ samples = <<>>
                  => /\ AssetFailed("RuntimeError",
                                    <<"No generated samples found in operation response">>)
                     /\ asset'.requests = <<>>
            /\ (samples # <<>> /\ samples[1] = NoSample)
                  => /\ AssetFailed("RuntimeError",
                                    <<"No URI or data found for generated asset">>)
                     /\ asset'.requests = <<>>
            /\ asset'.status = "http_error" => AssetFailed("HTTPError", <<>>)
            /\ asset'.status = "transport_error" => AssetFailed("ConnectionError", <<>>)
      ]_vars

\* a download that failed left the file saved by an earlier call as it was
C12_Witness ==
    /\ AssetCalled
    /\ asset.status = "http_error"
    /\ asset.result.exc = "HTTPError"
    /\ asset.cache_key = <<"k">>
    /\ <<"k", ".", "j", "p", "g">> \in DOMAIN outputDir
    /\ outputDir[<<"k", ".", "j", "p", "g">>] = <<"i">>

\* C13: precondition failures are raised before any external request is made:
\* generate_image with an empty API key raises RuntimeError 'API key not configured' before
\* loading any image or calling the SDK, and generate_video_from_image raises RuntimeError
\* when the API key is empty and FileNotFoundError when the resolved source image does not
\* exist, in both cases before any HTTP request is sent and without changing the video
\* cache.
C13_ImagePrecondition ==
    (lastCall = "generate_image" /\ svc.api_key = <<>>)
        => /\ imgGen.result.kind = "error"
           /\ imgGen.result.exc = "RuntimeError"
           /\ imgGen.result.message = <<"API key not configured">>
           /\ imgGen.loads = <<>>
           /\ imgGen.sdk_calls = 0

C13_VideoPrecondition ==
    lastCall = "generate"
        => /\ api_key = <<>>
                 => /\ lastGen.result.kind = "error"
                    /\ lastGen.result.exc = "RuntimeError"
                    /\ lastGen.posts = 0
           /\ (api_key # <<>> /\ resolve_image_path(lastGen.args.image_path) \notin DOMAIN imageFiles)
                 => /\ lastGen.result.kind = "error"
                    /\ lastGen.result.exc = "FileNotFoundError"
                    /\ lastGen.posts = 0

C13_CacheUntouched ==
    (lastCall' = "generate" /\ lastGen'.result.kind = "error") => videoDir' = videoDir

C13_PreconditionsFirst ==
    /\ [](C13_ImagePrecondition /\ C13_VideoPrecondition)
    /\ [][C13_CacheUntouched]_vars

\* generate_image was called for two loadable images on a service without an API key,
\* after generate_video_from_image calls
C13_Witness ==
    /\ lastCall = "generate_image"
    /\ svc.api_key = <<>>
    /\ imgGen.model_image \in LoadableImages
    /\ imgGen.look_image \in LoadableImages
    /\ imgGen.result.exc = "RuntimeError"
    /\ calls > 0
    /\ videoDir = CachedDir


\* the last request was POST /generate
Posted == lastRequest.method = "POST" /\ lastRequest.path = <<"/", "g", "e", "n", "e", "r", "a", "t", "e">>

\* the request was refused with this message before anything was generated
BadRequest(error) ==
    /\ lastRequest.status = 400
    /\ lastRequest.success = FALSE
    /\ lastRequest.error = error
    /\ lastRequest.generations = 0

\* the JSON payload is missing (no JSON body, or null) or empty
PayloadMissing(payload) == payload.kind # "object" \/ payload = EmptyPayload

C14_Refused ==
    Posted =>
        LET payload == lastRequest.payload
        IN  /\ PayloadMissing(payload) => BadRequest(<<"No JSON payload provided">>)
            /\ (~PayloadMissing(payload) /\ payload.model_image = <<>>)
                  => BadRequest(<<"model_image is required">>)
            /\ (~PayloadMissing(payload) /\ payload.model_image # <<>> /\ payload.prompt = <<>>)
                  => BadRequest(<<"prompt is required">>)

C14_NothingWritten ==
    (lastRequest'.method = "POST" /\ lastRequest'.status # 200 /\ lastCall' = "request")
        => outputDir' = outputDir /\ uploadDir' = uploadDir

\* C14: POST /generate answers 400 and success=false when the JSON payload is missing or
\* empty, when model_image is missing, or when prompt is missing (checked in that order),
\* and in each case no image generation is attempted and no file is written.
C14_AsStated == []C14_Refused /\ [][C14_NothingWritten]_vars

\* what holds of the code: the same, for every request that carries a JSON body
C14_RefusedWithBody ==
    (Posted /\ lastRequest.payload # NoPayload) => C14_Refused

\* a request without a JSON body was answered 500 by the handler's except clause
C14_Witness ==
    /\ Posted
    /\ lastRequest.payload = NoPayload
    /\ lastRequest.status = 500
    /\ lastRequest.generations = 0

\* the filenames POST /generate has answered with success
GeneratedNames == { g.filename : g \in generated }

\* the last request was GET /images/<filename> for this filename
AskedImage(filename) ==
    lastRequest.method = "GET" /\ lastRequest.path = <<"/", "i", "m", "a", "g", "e", "s", "/">> \o filename

\* C15: after POST /generate succeeds with filename F, GET /images/F answers 200 with the
\* content of the saved image.
C15_ServesGenerated ==
    \A filename \in GeneratedNames :
        AskedImage(filename)
            => /\ lastRequest.status = 200
               /\ filename \in DOMAIN outputDir
               /\ lastRequest.body = outputDir[filename]

\* the image POST /generate saved is in output_dir, and GET /images/ for its filename
\* was answered 404 from UPLOAD_FOLDER
C15_Witness ==
    \E filename \in GeneratedNames :
        /\ AskedImage(filename)
        /\ filename \in DOMAIN outputDir
        /\ lastRequest.status = 404
        /\ lastRequest.error = <<"Image ">> \o filename \o <<" not found">>


\* the last request was GET /list-images
AskedList == lastRequest.method = "GET" /\ lastRequest.path = <<"/", "l", "i", "s", "t", "-", "i", "m", "a", "g", "e", "s">>

\* C16: GET /list-images answers 200 with a JSON object whose success field is true and
\* that carries a list field images and a field count.
C16_ListImages ==
    AskedList
        => /\ lastRequest.status = 200
           /\ lastRequest.success = TRUE
           /\ {"images", "count"} \subseteq lastRequest.keys

\* GET /list-images was answered by the 404 handler, after an image was generated
C16_Witness ==
    /\ AskedList
    /\ lastRequest.status = 404
    /\ lastRequest.error = <<"Endpoint not found">>
    /\ lastRequest.keys = {"success", "error"}
    /\ generated # {}

\* download_video_with_redirects was called directly
Downloaded == dlCall.result # "none"

\* C17: download_video_with_redirects requests the URI with redirects enabled and the API
\* key in the x-goog-api-key header; it appends the API key as a 'key' query parameter
\* exactly when the URI contains 'generativelanguage.googleapis.com' and does not already
\* contain 'key=', using '&' as separator when the URI already has a '?' and '?'
\* otherwise; every other URI is requested unchanged.
C17_DownloadRequest ==
    Downloaded =>
        LET uri == dlCall.uri
            appends == /\ Contains(uri, <<"g", "e", "n", "e", "r", "a", "t", "i", "v", "e", "l", "a", "n", "g", "u", "a", "g", "e", ".", "g", "o", "o", "g", "l", "e", "a", "p", "i", "s", ".", "c", "o", "m">>)
                       /\ ~Contains(uri, <<"k", "e", "y", "=">>)
            has_query == \E i \in 1..Len(uri) : uri[i] = "?"
        IN  /\ dlCall.allow_redirects = TRUE
            /\ dlCall.x_goog_api_key = api_key
            /\ (appends /\ has_query) => dlCall.url = uri \o <<"&", "k", "e", "y", "=">> \o api_key
            /\ (appends /\ ~has_query) => dlCall.url = uri \o <<"?", "k", "e", "y", "=">> \o api_key
            /\ ~appends => dlCall.url = uri

\* a URI of the API host that has a query was requested with '&key=' and the key
C17_Witness ==
    /\ Downloaded
    /\ api_key = TestApiKey
    /\ dlCall.uri = <<"h", "t", "t", "p", "s", ":", "/", "/", "g", "e", "n", "e", "r", "a", "t", "i", "v", "e", "l", "a", "n", "g", "u", "a", "g", "e", ".", "g", "o", "o", "g", "l", "e", "a", "p", "i", "s", ".", "c", "o", "m", "/", "f", "?", "a", "l", "t", "=", "m", "e", "d", "i", "a">>
    /\ dlCall.url = <<"h", "t", "t", "p", "s", ":", "/", "/", "g", "e", "n", "e", "r", "a", "t", "i", "v", "e", "l", "a", "n", "g", "u", "a", "g", "e", ".", "g", "o", "o", "g", "l", "e", "a", "p", "i", "s", ".", "c", "o", "m", "/", "f", "?", "a", "l", "t", "=", "m", "e", "d", "i", "a", "&", "k", "e", "y", "=">> \o TestApiKey
    /\ dlCall.result = "bytes"

\* the path without one leading 'pub/media/'
WithoutMediaPrefix(image_path) ==
    IF Len(image_path) >= 10 /\ SubSeq(image_path, 1, 10) = <<"p", "u", "b", "/", "m", "e", "d", "i", "a", "/">>
    THEN SubSeq(image_path, 11, Len(image_path))
    ELSE image_path

IsAbsolute(image_path) == image_path # <<>> /\ image_path[1] = "/"

\* base_path/pub/media/<path>; a path compares equal with or without a repeated '/'
UnderMedia(path) == BasePath \o <<"/", "p", "u", "b", "/", "m", "e", "d", "i", "a", "/">> \o path

\* C18: resolve_image_path returns an absolute path unchanged; for a relative path it
\* returns base_path/pub/media/<path>, after first removing a leading 'pub/media/' prefix
\* if present, so 'pub/media/x' and 'x' resolve to the same file.
C18_ResolveImagePath ==
    /\ \A i \in 1..Len(resolveCalls) :
         LET call == resolveCalls[i]
             rest == WithoutMediaPrefix(call.image_path)
         IN  /\ IsAbsolute(call.image_path) => call.path = call.image_path
             /\ ~IsAbsolute(call.image_path)
                   => call.path = UnderMedia(LStrip(rest, {"/"}))
    /\ \A i, j \in 1..Len(resolveCalls) :
         LET x == resolveCalls[j].image_path
         IN  (/\ ~IsAbsolute(x)
              /\ WithoutMediaPrefix(x) = x
              /\ resolveCalls[i].image_path = <<"p", "u", "b", "/", "m", "e", "d", "i", "a", "/">> \o x)
                 => resolveCalls[i].path = resolveCalls[j].path

\* 'pub/media/x' and then 'x' were resolved, both to base_path/pub/media/x
C18_Witness ==
    /\ Len(resolveCalls) = 2
    /\ resolveCalls[1].image_path = <<"p", "u", "b", "/", "m", "e", "d", "i", "a", "/", "x">>
    /\ resolveCalls[2].image_path = <<"x">>
    /\ resolveCalls[1].path = <<"/", "m", "/", "p", "u", "b", "/", "m", "e", "d", "i", "a", "/", "x">>
    /\ resolveCalls[2].path = <<"/", "m", "/", "p", "u", "b", "/", "m", "e", "d", "i", "a", "/", "x">>

\* the poll request that is about to be sent starts within max_wait_seconds of the call
StartsInTime == pollPc = "request" => Elapsed <= pollArgs.max_wait_seconds

\* floor(max_wait_seconds / poll_interval_seconds) + 1
MaxPolls == (pollArgs.max_wait_seconds \div pollArgs.poll_interval_seconds) + 1

\* C19: the poll loop is bounded: for poll_interval_seconds > 0, one call of
\* poll_video_operation issues at most floor(max_wait_seconds / poll_interval_seconds) + 1
\* poll requests, because consecutive poll requests are separated by at least
\* poll_interval_seconds and no poll is started once elapsed exceeds max_wait_seconds.
C19_PollsBounded ==
    (lastCall = "poll" /\ pollArgs.poll_interval_seconds > 0)
        => /\ polls <= MaxPolls
           /\ pollPc = "request" => polls < MaxPolls
           /\ polls > 0 => Elapsed >= (polls - 1) * pollArgs.poll_interval_seconds

\* a call made exactly floor(2 / 1) + 1 = 3 poll requests and timed out
C19_Witness ==
    /\ PollEnded
    /\ pollArgs.max_wait_seconds = 2
    /\ pollArgs.poll_interval_seconds = 1
    /\ polls = 3
    /\ IsTimeout(pollResult)

Longer(a, b) == IF a >= b THEN a ELSE b

PreHash(call) ==
    CacheData(MD5Hex(imageFiles[call.image_path]), call.prompt, call.aspect_ratio)

\* C27: the string that generate_cache_key hashes separates its inputs unambiguously: for
\* a fixed image, two different (prompt, aspect_ratio) pairs never produce the same
\* pre-hash string '<image_hash>:<prompt>:<aspect_ratio>', so they never share a cache
\* entry (for example prompt 'a:16' with aspect ratio '9' and prompt 'a' with aspect
\* ratio '16:9').
C27_Unambiguous ==
    TwoKeys =>
        LET a == keyCalls[1]
            b == keyCalls[2]
        IN  (/\ a.image_path = b.image_path
             /\ <<a.prompt, a.aspect_ratio>> # <<b.prompt, b.aspect_ratio>>)
                => /\ PreHash(a) # PreHash(b)
                   /\ a.key # b.key
                   /\ VideoFilename(a.key) # VideoFilename(b.key)

\* prompt 'a:16' with aspect ratio '9' and prompt 'a' with aspect ratio '16:9' gave the
\* same key for one image
C27_Witness ==
    /\ TwoKeys
    /\ keyCalls[1].image_path = keyCalls[2].image_path
    /\ keyCalls[1].prompt = <<"a", ":", "1", "6">>
    /\ keyCalls[1].aspect_ratio = <<"9">>
    /\ keyCalls[2].prompt = <<"a">>
    /\ keyCalls[2].aspect_ratio = <<"1", "6", ":", "9">>
    /\ keyCalls[1].key = keyCalls[2].key

\* the download of the poll call failed: a non-2xx status, a transport error or an
\* empty body
DownloadFailed ==
    /\ PollEnded
    /\ Len(downloads) = 1
    /\ (downloads[1].status # "ok" \/ downloads[1].content = <<>>)

\* the failing save_video step creates no file and the call raises
C28_NoFile ==
    (pollPc = "download" /\ DownloadFailed')
        => /\ videoDir' = videoDir
           /\ pollResult'.kind = "error"
           /\ completed' = completed

\* the next generate_video_from_image for the key of the failed download is a miss
C28_MissAgain ==
    (/\ DownloadFailed
     /\ pollArgs.cache_key # <<>>
     /\ VideoFilename(pollArgs.cache_key) \notin DOMAIN videoDir
     /\ lastCall' = "generate"
     /\ GenerateRan'
     /\ LastCacheKey' = pollArgs.cache_key)
        => /\ lastGen'.posts = 1
           /\ lastGen'.result.kind # "cached"

\* C28: a failed download never creates a cache entry: if download_video_with_redirects
\* fails (non-2xx status, transport error, or empty body) during save_video, no file
\* veo_<cache_key>.mp4 is created, so if none existed before, a later
\* generate_video_from_image with the same inputs is a cache miss and submits a new
\* request.
C28_FailedDownload == [][C28_NoFile /\ C28_MissAgain]_vars

\* the poll for the operation and cache key generate returned ended with an empty
\* download, and the directory is still empty
C28_Witness ==
    /\ DownloadFailed
    /\ downloads[1].status = "ok"
    /\ pollFor # {}
    /\ pollArgs.cache_key # <<>>
    /\ videoDir = EmptyDir

\* a step in which POST /generate succeeded
GeneratedStep ==
    /\ calls' = calls + 1
    /\ lastRequest'.method = "POST"
    /\ lastRequest'.status = 200

\* C26: the timestamp makes generated filenames unique: two generation requests
\* (sequential or concurrent /generate requests) never obtain the same filename from
\* generate_descriptive_filename, so save_asset_from_operation never overwrites the asset
\* saved for an earlier request.
C26_UniqueFilenames ==
    [][GeneratedStep
         => /\ lastRequest'.filename \notin GeneratedNames
            /\ \A name \in DOMAIN outputDir : outputDir'[name] = outputDir[name]
      ]_vars

\* two requests were answered with the same filename for different images, and the file
\* holds the later one
C26_Witness ==
    \E g, h \in generated :
        /\ g.filename = h.filename
        /\ g.content # h.content
        /\ h.filename \in DOMAIN outputDir
        /\ outputDir[h.filename] = h.content
        /\ lastRequest.filename = h.filename

\* the mock server's last answer was to a poll of a stored operation
PolledStored ==
    /\ mock.last.method = "GET"
    /\ mock.last.status = 200
    /\ mock.last.name \in DOMAIN mock.operations

\* the poll reports done=false while less than 5 seconds have passed since the operation
\* was created, and done=true from then on
C24_DoneByAge ==
    PolledStored
      => mock.last.done = ~(mock.last.at - mock.operations[mock.last.name].created_at < 5)

\* a poll of an operation that a poll has reported done reports done
C24_NeverBack ==
    (/\ mock'.last.method = "GET"
     /\ \E r \in mock.reported : r.name = mock'.last.name)
      => mock'.last.done

\* C24: in the mock server an operation only moves from pending to done: a poll of a stored
\* operation reports done=false while less than 5 seconds have passed since it was created
\* and done=true from then on, and once any poll of an operation has reported done=true no
\* later poll of the same operation reports done=false.
C24_PendingToDone == []C24_DoneByAge /\ [][C24_NeverBack]_vars

\* an operation was polled before it was 5 seconds old, reported done by a poll at that
\* age and by a later poll again
C24_Witness ==
    /\ PolledStored
    /\ mock.last.done
    /\ \E r \in mock.reported :
          /\ r.name = mock.last.name
          /\ r.at = mock.operations[r.name].created_at + 5
          /\ r.at < mock.last.at
    /\ mock.operations[mock.last.name].created_at > 0

\* C25: generate_descriptive_filename limits the total filename length: for every
\* combination of image names, prompt and timestamp the returned filename is at most 100
\* characters long.
C25_AtMostLimit ==
    \A i \in 1..Len(nameCalls) : Len(nameCalls[i].filename) <= 100

\* a name longer than the limit was cut to 95 characters and got the ten digits of the
\* timestamp appended again
C25_Witness ==
    \E i \in 1..Len(nameCalls) :
        /\ Len(nameCalls[i].timestamp) = 10
        /\ Len(nameCalls[i].filename) = 95 + 1 + 10
        /\ EndsWith(nameCalls[i].filename, <<"_">> \o nameCalls[i].timestamp)

\* the generator was constructed and the command reached its loop over the image paths
LoopReached == cli.pc # "none" /\ api_key # <<>>

\* the number of the first k processed paths whose entry went to the list `where`
EntriesIn(where, k) == Cardinality({ j \in 1..k : cli.log[j] = where })

\* the k-th path's entry is in the list it went to, at the place of its turn
EntryOf(k) ==
    IF cli.log[k] = "results" THEN cli.results[EntriesIn("results", k)]
    ELSE cli.errors[EntriesIn("errors", k)]

\* C21: with N >= 2 image paths the video CLI processes every path, in the order given,
\* regardless of failures on earlier paths; each path produces exactly one entry, either
\* in results or in errors; and the printed aggregate satisfies
\* total = N = succeeded + failed, with success true if and only if failed = 0.
C21_EveryPath ==
    (LoopReached /\ Len(cli.args.image_path) >= 2)
      => /\ Len(cli.results) = EntriesIn("results", Len(cli.log))
         /\ Len(cli.errors) = EntriesIn("errors", Len(cli.log))
         /\ \A k \in 1..Len(cli.log) :
               /\ EntryOf(k).imagePath = cli.args.image_path[k]
               /\ EntryOf(k).success = (cli.log[k] = "results")
         /\ lastCall = "generate" /\ cli.pc = "poll"
              => lastGen.args.image_path = cli.args.image_path[Len(cli.log) + 1]
         /\ cli.pc = "exit"
              => /\ Len(cli.log) = Len(cli.args.image_path)
                 /\ Len(cli.results) + Len(cli.errors) = Len(cli.args.image_path)
                 /\ cli.printed.total = Len(cli.args.image_path)
                 /\ cli.printed.total = cli.printed.succeeded + cli.printed.failed
                 /\ cli.printed.succeeded = Len(cli.results)
                 /\ cli.printed.failed = Len(cli.errors)
                 /\ cli.printed.success = (cli.printed.failed = 0)
                 /\ cli.printed.results = cli.results
                 /\ cli.printed.errors = cli.errors

\* two paths were given, the first failed and the second was processed all the same
C21_Witness ==
    /\ cli.pc = "exit"
    /\ Len(cli.args.image_path) = 2
    /\ cli.log = <<"errors", "results">>
    /\ cli.printed.total = 2
    /\ cli.printed.succeeded = 1
    /\ cli.printed.failed = 1
    /\ ~cli.printed.success

\* args.api_key or os.getenv('GEMINI_API_KEY') is empty
KeyMissing == Or(cli.args.api_key, cli.env_key) = <<>>

\* exactly one image path was given and the printed object is its result or its error
SinglePrinted ==
    /\ Len(cli.results) + Len(cli.errors) = 1
    /\ cli.printed = (IF cli.results # <<>> THEN cli.results[1] ELSE cli.errors[1])
    /\ cli.printed.imagePath = cli.args.image_path[1]

\* C22 as stated: exit status 1 exactly for a missing API key or a failed path
C22_AsStated ==
    cli.pc = "exit"
      => /\ cli.exit \in {0, 1}
         /\ cli.exit = 1 <=> (KeyMissing \/ cli.errors # <<>>)
         /\ Len(cli.args.image_path) = 1 => SinglePrinted

\* C22: the video CLI exits with status 1 if and only if the API key is missing, the
\* generator cannot be constructed or at least one image path failed, and with status 0
\* otherwise; when exactly one image path is given and the loop over the paths is reached,
\* the printed object is that path's single result or single error object (never the
\* aggregate), and exactly one of the two exists.
C22_ExitStatus ==
    cli.pc = "exit"
      => /\ cli.exit \in {0, 1}
         /\ cli.exit = 1 <=> (KeyMissing \/ cli.raised # "" \/ cli.errors # <<>>)
         /\ (Len(cli.args.image_path) = 1 /\ LoopReached) => SinglePrinted

\* one path was given and it failed: its error object is printed, the exit status is 1
C22_Witness ==
    /\ cli.pc = "exit"
    /\ LoopReached
    /\ Len(cli.args.image_path) = 1
    /\ cli.results = <<>>
    /\ cli.printed = cli.errors[1]
    /\ cli.exit = 1

\* the step in which generate_video_from_image returned an operation to the loop
Submitted ==
    /\ calls' = calls + 1
    /\ lastCall' = "generate"
    /\ lastGen'.result.kind = "operation"

\* the last entry of results is the 'processing' entry of the operation just submitted
ReportedProcessing ==
    /\ Len(cli'.results) = Len(cli.results) + 1
    /\ cli'.errors = cli.errors
    /\ cli'.results[Len(cli'.results)].imagePath = lastGen'.args.image_path
    /\ cli'.results[Len(cli'.results)].success
    /\ cli'.results[Len(cli'.results)].status = "processing"
    /\ cli'.results[Len(cli'.results)].operationName = lastGen'.result.operationName

\* C23: without --poll, for an image that is not in the cache the video CLI reports
\* success with status 'processing' and the operationName, and issues no poll request and
\* no download request, so the video directory is left unchanged by that image.
C23_WithoutPoll ==
    [][(cli'.pc # "none" /\ ~cli'.args.poll)
         => /\ Submitted => ReportedProcessing
            /\ lastCall' # "poll"
            /\ pollPc' = "idle"
            /\ polls' = 0
            /\ downloads' = <<>>
            /\ videoDir' = videoDir
      ]_vars

\* a run without --poll submitted an operation for an image that was not in the cache and
\* ended with the 'processing' entry printed and nothing in the video directory
C23_Witness ==
    /\ cli.pc = "exit"
    /\ ~cli.args.poll
    /\ Len(cli.args.image_path) = 1
    /\ cli.results # <<>>
    /\ cli.printed = cli.results[1]
    /\ cli.results[1].status = "processing"
    /\ cli.results[1].operationName = <<"o", "p", "e", "r", "a", "t", "i", "o", "n", "s", "/", "1">>
    /\ cli.exit = 0
    /\ polls = 0
    /\ downloads = <<>>
    /\ videoDir = EmptyDir
=============================================================================
